---- MODULE Spec2Model ----
(***************************************************************************)
(* A model of the thangs CLI (things3-cli-wrapper): the operations of      *)
(* things.ts (listTasks, addTask, editTask, completeTask, cancelTask,      *)
(* addProject, addArea), the execution bridge of applescript.ts, and the   *)
(* Things 3 store the generated AppleScript acts on.                       *)
(*                                                                         *)
(* One CLI invocation is a process: it dispatches a script to the bridge   *)
(* (inflight), the bridge runs it against the store (db) and leaves a      *)
(* reply, and the handler continues from the reply.  Strings are TLA+      *)
(* strings, handled with Len, \o and SubSeq as the TypeScript handles      *)
(* them with length, + and substring.                                      *)
(***************************************************************************)
EXTENDS Integers, Sequences, FiniteSets, TLC

(***************************************************************************)
(* Bounds of the model.                                                    *)
(***************************************************************************)
\* Invocations in one behaviour.
MaxOps == 2
\* To-dos the store may hold (add is not offered beyond it).
MaxTasks == 3

(***************************************************************************)
(* Optional values: undefined is the empty tuple, a given string s is <<s>>.*)
(***************************************************************************)
Undef == <<>>

Some(s) == <<s>>

\* JavaScript truthiness of an optional string: defined and not "".
Truthy(o) == o # Undef /\ o[1] # ""

(***************************************************************************)
(* String primitives of JavaScript used by the source.                     *)
(***************************************************************************)
\* s.includes(sub)
Includes(s, sub) ==
    \E i \in 1..(Len(s) - Len(sub) + 1) : SubSeq(s, i, i + Len(sub) - 1) = sub

\* s.startsWith(p)
StartsWith(s, p) == Len(s) >= Len(p) /\ SubSeq(s, 1, Len(p)) = p

\* s.substring(n): from the 0-based index n to the end
Substring(s, n) == SubSeq(s, n + 1, Len(s))

\* the i-th character (1-based) as a one-character string
CharAt(s, i) == SubSeq(s, i, i)

\* white space as String.prototype.trim sees it (the characters the model uses)
IsSpace(c) == c \in {" ", "\n", "\r", "\t"}

RECURSIVE TrimStart(_)
TrimStart(s) ==
    IF Len(s) > 0 /\ IsSpace(CharAt(s, 1)) THEN TrimStart(Substring(s, 1)) ELSE s

RECURSIVE TrimEnd(_)
TrimEnd(s) ==
    IF Len(s) > 0 /\ IsSpace(CharAt(s, Len(s)))
    THEN TrimEnd(SubSeq(s, 1, Len(s) - 1))
    ELSE s

\* s.trim()
Trim(s) == TrimEnd(TrimStart(s))

\* s.indexOf(sub), 0-based, -1 when absent
IndexOf(s, sub) ==
    LET hits == {i \in 1..(Len(s) - Len(sub) + 1) : SubSeq(s, i, i + Len(sub) - 1) = sub}
    IN  IF hits = {} THEN -1
        ELSE (CHOOSE i \in hits : \A j \in hits : i <= j) - 1

\* s.split(sep) for a non-empty separator
RECURSIVE Split(_, _)
Split(s, sep) ==
    LET i == IndexOf(s, sep)
    IN  IF i = -1 THEN <<s>>
        ELSE <<SubSeq(s, 1, i)>> \o Split(Substring(s, i + Len(sep)), sep)

\* s.replace(/c/g, r) for a one-character pattern c
RECURSIVE ReplaceAll(_, _, _)
ReplaceAll(s, c, r) ==
    IF Len(s) = 0 THEN ""
    ELSE (IF CharAt(s, 1) = c THEN r ELSE CharAt(s, 1))
         \o ReplaceAll(Substring(s, 1), c, r)

\* s.toLowerCase(), on the ASCII letters
LowerChar(c) ==
    LET i == IndexOf("ABCDEFGHIJKLMNOPQRSTUVWXYZ", c)
    IN  IF i = -1 THEN c ELSE CharAt("abcdefghijklmnopqrstuvwxyz", i + 1)

RECURSIVE ToLowerCase(_)
ToLowerCase(s) ==
    IF Len(s) = 0 THEN ""
    ELSE LowerChar(CharAt(s, 1)) \o ToLowerCase(Substring(s, 1))

(***************************************************************************)
(* things.ts: pure helpers.                                                *)
(***************************************************************************)
\* escapeAppleScript as it would be with the double quotes escaped before
\* the backslashes.
escapeAppleScriptQuotesFirst(str) ==
    ReplaceAll(ReplaceAll(ReplaceAll(ReplaceAll(str,
        "\"", "\\\""), "\\", "\\\\"), "\n", "\\n"), "\r", "\\r")

\* escapeAppleScript: backslashes first, then double quotes, then \n and \r.
escapeAppleScript(str) ==
    ReplaceAll(ReplaceAll(ReplaceAll(ReplaceAll(str,
        "\\", "\\\\"), "\"", "\\\""), "\n", "\\n"), "\r", "\\r")

\* How AppleScript reads the text between the quotes of a string literal:
\* a backslash takes the next character, \n and \r denote the line breaks.
RECURSIVE ReadLiteral(_)
ReadLiteral(s) ==
    IF Len(s) = 0 THEN ""
    ELSE IF CharAt(s, 1) = "\\" /\ Len(s) >= 2
         THEN (CASE CharAt(s, 2) = "n" -> "\n"
                 [] CharAt(s, 2) = "r" -> "\r"
                 [] OTHER -> CharAt(s, 2)) \o ReadLiteral(Substring(s, 2))
         ELSE CharAt(s, 1) \o ReadLiteral(Substring(s, 1))

IsDigit(c) == c \in {"0", "1", "2", "3", "4", "5", "6", "7", "8", "9"}

DigitValue(c) ==
    CASE c = "0" -> 0 [] c = "1" -> 1 [] c = "2" -> 2 [] c = "3" -> 3
      [] c = "4" -> 4 [] c = "5" -> 5 [] c = "6" -> 6 [] c = "7" -> 7
      [] c = "8" -> 8 [] c = "9" -> 9

\* /^\d{4}-\d{2}-\d{2}$/.test(dateStr)
dateRegex(dateStr) ==
    /\ Len(dateStr) = 10
    /\ \A i \in {1, 2, 3, 4, 6, 7, 9, 10} : IsDigit(CharAt(dateStr, i))
    /\ CharAt(dateStr, 5) = "-"
    /\ CharAt(dateStr, 8) = "-"

\* The two-digit number at position i of a date string.
DateNumber(dateStr, i) ==
    10 * DigitValue(CharAt(dateStr, i)) + DigitValue(CharAt(dateStr, i + 1))

\* !Number.isNaN(new Date(dateStr).getTime()) for a string of the YYYY-MM-DD
\* shape, as Node's V8 parses an ISO date: the month must be 01..12 and the
\* day 01..31 (a day beyond the month's end is not an invalid date to it).
DateParses(dateStr) ==
    DateNumber(dateStr, 6) \in 1..12 /\ DateNumber(dateStr, 9) \in 1..31

\* isValidDateFormat
isValidDateFormat(dateStr) ==
    IF ~dateRegex(dateStr) THEN FALSE ELSE DateParses(dateStr)

\* The calendar.
IsLeapYear(y) == (y % 4 = 0 /\ y % 100 # 0) \/ y % 400 = 0

DaysInMonth(y, m) ==
    IF m \in {4, 6, 9, 11} THEN 30
    ELSE IF m = 2 THEN (IF IsLeapYear(y) THEN 29 ELSE 28)
    ELSE 31

\* A string that is a real calendar date in the YYYY-MM-DD form.
IsRealDate(dateStr) ==
    /\ dateRegex(dateStr)
    /\ LET year == 1000 * DigitValue(CharAt(dateStr, 1)) + 100 * DigitValue(CharAt(dateStr, 2))
                   + 10 * DigitValue(CharAt(dateStr, 3)) + DigitValue(CharAt(dateStr, 4))
           month == DateNumber(dateStr, 6)
       IN  month \in 1..12 /\ DateNumber(dateStr, 9) \in 1..DaysInMonth(year, month)

DigitText == <<"0", "1", "2", "3", "4", "5", "6", "7", "8", "9">>

\* A number below 100 as two digits.
Pad2(n) == DigitText[(n \div 10) + 1] \o DigitText[(n % 10) + 1]

\* A number below 100 as text.
NumText(n) == IF n < 10 THEN DigitText[n + 1] ELSE Pad2(n)

(***************************************************************************)
(* Results of a call: a value returned or an error thrown.                 *)
(***************************************************************************)
Return(v) == [kind |-> "ok", message |-> v]

Throw(class, msg) == [kind |-> class, message |-> msg]

\* What the handler does next: dispatch a script and await it, or finish.
Dispatch(script, nextPhase) == [type |-> "dispatch", script |-> script, phase |-> nextPhase]

Finish(result) == [type |-> "finish", outcome |-> result]

(***************************************************************************)
(* applescript.ts: the execution bridge.                                   *)
(***************************************************************************)
\* NotAccessibleMarkers with one of the four left out.
MarkersWithoutCantGet ==
    {"application isn't running", "application is not running", "not found"}

\* The substrings of the native error text that mean "app not reachable".
NotAccessibleMarkers ==
    {"application isn't running", "application is not running",
     "Can't get application", "not found"}

\* executeAppleScript, from the transport's result r = [ok, text].
executeAppleScript(r) ==
    IF r.ok THEN Return(r.text)
    ELSE IF \E m \in NotAccessibleMarkers : Includes(r.text, m)
         THEN Throw("Things3NotAccessibleError", "Things 3 is not running or not accessible")
         ELSE Throw("AppleScriptError", "AppleScript execution failed: " \o r.text)

\* isThings3Accessible as it would be if the probe's output were not compared.
isThings3AccessibleAnyOutput(r) == executeAppleScript(r).kind = "ok"

\* isThings3Accessible, from the transport's result of the probe script.
isThings3Accessible(r) ==
    LET result == executeAppleScript(r)
    IN  IF result.kind = "ok" THEN Trim(result.message) = "true" ELSE FALSE

\* The error verifyThings3Access throws when the probe says no.
NotRunningError ==
    Throw("Things3NotAccessibleError",
          "Things 3 is not running. Please open Things 3 and try again.")

(***************************************************************************)
(* The Things 3 store, as the scripts of things.ts see it.                 *)
(***************************************************************************)
IdText == <<"T1", "T2", "T3", "T4", "T5", "T6">>

\* make new to do with properties {name: ...}
NewTask(id, name) ==
    [id |-> id, name |-> name, status |-> "open", notes |-> "", due |-> Undef,
     tagNames |-> "", project |-> Undef, area |-> Undef, view |-> "Inbox"]

\* make new project with properties {name: ...}
NewProject(name) == [name |-> name, notes |-> "", deadline |-> Undef, area |-> Undef]

\* first project whose name is ... (exists)
HasProject(db, name) == \E i \in DOMAIN db.projects : db.projects[i].name = name

\* first area whose name is ... (exists)
HasArea(db, name) == \E i \in DOMAIN db.areas : db.areas[i] = name

\* to dos whose name is "...": the positions of the matching to-dos
MatchingTasks(db, name) == {i \in DOMAIN db.tasks : db.tasks[i].name = name}

\* move theTask to targetProject: the to-do leaves its area
MoveToProject(t, p) == [t EXCEPT !.project = Some(p), !.area = Undef]

\* set area of theTask to targetArea: the to-do leaves its project
SetArea(t, a) == [t EXCEPT !.area = Some(a), !.project = Undef]

\* The text osascript reports when a script ends with the error msg.
NativeError(msg) == "execution error: " \o msg \o " (-2700)"

\* What running a script gives: the store it leaves and the transport's result.
Ran(db, text) == [db |-> db, ok |-> TRUE, text |-> text]

Failed(db, msg) == [db |-> db, ok |-> FALSE, text |-> NativeError(msg)]

\* One candidate of a MULTIPLE reply (the repeat body of the lookup scripts).
CandidateText(t) ==
    "ID:" \o t.id \o "|NAME:" \o t.name \o "|STATUS:" \o t.status
    \o (IF t.project # Undef THEN "|PROJECT:" \o t.project[1] ELSE "")
    \o (IF t.area # Undef THEN "|AREA:" \o t.area[1] ELSE "")
    \o "||"

RECURSIVE MultipleText(_, _, _)
MultipleText(db, name, i) ==
    IF i > Len(db.tasks) THEN ""
    ELSE (IF db.tasks[i].name = name THEN CandidateText(db.tasks[i]) ELSE "")
         \o MultipleText(db, name, i + 1)

\* LookupReply as it would be if several matches were settled by the first.
LookupReplyTakesFirst(db, name) ==
    IF MatchingTasks(db, name) = {} THEN "NOT_FOUND:" \o name ELSE ""

\* The lookup part shared by the complete, cancel and find scripts: the reply
\* for no match or several matches, "" for exactly one.
LookupReply(db, name) ==
    LET n == Cardinality(MatchingTasks(db, name))
    IN  IF n = 0 THEN "NOT_FOUND:" \o name
        ELSE IF n > 1 THEN "MULTIPLE:" \o MultipleText(db, name, 1)
        ELSE ""

TheTask(db, name) == CHOOSE i \in MatchingTasks(db, name) : TRUE

\* RunComplete as it would be if it took the first to-do of the store for
\* the single match.
RunCompleteFirstOfAll(db, s) ==
    LET name == ReadLiteral(s.name)
        miss == LookupReply(db, name)
    IN  IF miss # "" THEN Ran(db, miss)
        ELSE LET t == db.tasks[1]
             IN  IF t.status = "completed"
                 THEN Ran(db, "ALREADY_COMPLETED:" \o t.name)
                 ELSE Ran([db EXCEPT !.tasks[1].status = "completed"],
                          "COMPLETED:" \o t.name)

\* The script of completeTask.
RunComplete(db, s) ==
    LET name == ReadLiteral(s.name)
        miss == LookupReply(db, name)
    IN  IF miss # "" THEN Ran(db, miss)
        ELSE LET i == TheTask(db, name)
                 t == db.tasks[i]
             IN  IF t.status = "completed"
                 THEN Ran(db, "ALREADY_COMPLETED:" \o t.name)
                 ELSE Ran([db EXCEPT !.tasks[i].status = "completed"],
                          "COMPLETED:" \o t.name)

\* RunCancel as it would be without the check for a completed to-do.
RunCancelNoCompletedCheck(db, s) ==
    LET name == ReadLiteral(s.name)
        miss == LookupReply(db, name)
    IN  IF miss # "" THEN Ran(db, miss)
        ELSE LET i == TheTask(db, name)
                 t == db.tasks[i]
             IN  IF t.status = "canceled"
                 THEN Ran(db, "ALREADY_CANCELED:" \o t.name)
                 ELSE Ran([db EXCEPT !.tasks[i].status = "canceled"],
                          "CANCELED:" \o t.name)

\* The script of cancelTask.
RunCancel(db, s) ==
    LET name == ReadLiteral(s.name)
        miss == LookupReply(db, name)
    IN  IF miss # "" THEN Ran(db, miss)
        ELSE LET i == TheTask(db, name)
                 t == db.tasks[i]
             IN  IF t.status = "canceled"
                 THEN Ran(db, "ALREADY_CANCELED:" \o t.name)
                 ELSE IF t.status = "completed"
                 THEN Ran(db, "ALREADY_COMPLETED:" \o t.name)
                 ELSE Ran([db EXCEPT !.tasks[i].status = "canceled"],
                          "CANCELED:" \o t.name)

\* The find script of editTask.
RunFind(db, s) ==
    LET name == ReadLiteral(s.name)
        miss == LookupReply(db, name)
    IN  IF miss # "" THEN Ran(db, miss)
        ELSE Ran(db, "FOUND:" \o db.tasks[TheTask(db, name)].id)

\* "a" & "b" & ...: the text the tag clauses build from the tag literals
RECURSIVE JoinLiterals(_)
JoinLiterals(tags) ==
    IF tags = <<>> THEN "" ELSE ReadLiteral(Head(tags)) \o JoinLiterals(Tail(tags))

\* first tag whose name is ... / make new tag: every named tag exists afterwards
EnsureTags(db, tags) ==
    [db EXCEPT !.tags = @ \cup {ReadLiteral(tags[i]) : i \in DOMAIN tags}]

\* The script of addTask.  A script that ends with an error keeps what its
\* earlier statements did: the to-do made by its first statement stays.
RunAdd(db, s) ==
    LET t0 == NewTask(IdText[db.next], ReadLiteral(s.name))
        t1 == IF s.notes # Undef THEN [t0 EXCEPT !.notes = ReadLiteral(s.notes[1])] ELSE t0
        t2 == IF s.due # Undef THEN [t1 EXCEPT !.due = s.due] ELSE t1
        projMissing == s.project # Undef /\ ~HasProject(db, ReadLiteral(s.project[1]))
        t3 == IF s.project # Undef /\ ~projMissing
              THEN MoveToProject(t2, ReadLiteral(s.project[1])) ELSE t2
        areaMissing == s.area # Undef /\ ~HasArea(db, ReadLiteral(s.area[1]))
        t4 == IF s.area # Undef /\ ~areaMissing
              THEN SetArea(t3, ReadLiteral(s.area[1])) ELSE t3
        t5 == IF s.tags # Undef
              THEN [t4 EXCEPT !.tagNames = @ \o JoinLiterals(s.tags[1])] ELSE t4
        With(t) == [db EXCEPT !.tasks = Append(@, t), !.next = @ + 1]
    IN  IF projMissing
        THEN Failed(With(t2), "Project not found: " \o ReadLiteral(s.project[1]))
        ELSE IF areaMissing
        THEN Failed(With(t3), "Area not found: " \o ReadLiteral(s.area[1]))
        ELSE Ran(IF s.tags # Undef THEN EnsureTags(With(t5), s.tags[1]) ELSE With(t5),
                 t5.name)

\* The clauses of the update script, applied in order to the to-do at index i.
ApplyUpdate(db, i, s) ==
        LET t0 == db.tasks[i]
            t1 == IF s.name # Undef THEN [t0 EXCEPT !.name = ReadLiteral(s.name[1])] ELSE t0
            t2 == IF s.notes # Undef THEN [t1 EXCEPT !.notes = ReadLiteral(s.notes[1])] ELSE t1
            t3 == IF s.due # Undef THEN [t2 EXCEPT !.due = s.due] ELSE t2
            t4 == IF s.tags # Undef
                  THEN [t3 EXCEPT !.tagNames = JoinLiterals(s.tags[1])] ELSE t3
            db4 == IF s.tags # Undef THEN EnsureTags(db, s.tags[1]) ELSE db
            projMissing == s.project # Undef /\ ~HasProject(db, ReadLiteral(s.project[1]))
            t5 == IF s.project # Undef /\ ~projMissing
                  THEN MoveToProject(t4, ReadLiteral(s.project[1])) ELSE t4
            areaMissing == s.area # Undef /\ ~HasArea(db, ReadLiteral(s.area[1]))
            t6 == IF s.area # Undef /\ ~areaMissing
                  THEN SetArea(t5, ReadLiteral(s.area[1])) ELSE t5
            With(t) == [db4 EXCEPT !.tasks[i] = t]
        IN  IF projMissing
            THEN Failed(With(t4), "PROJECT_NOT_FOUND:" \o ReadLiteral(s.project[1]))
            ELSE IF areaMissing
            THEN Failed(With(t5), "AREA_NOT_FOUND:" \o ReadLiteral(s.area[1]))
            ELSE Ran(With(t6), t6.name)

\* RunUpdate as it would be if the script looked the to-do up again by the
\* name the resolved to-do bears, taking the first to-do of that name.
RunUpdateByName(db, s) ==
    LET found == {i \in DOMAIN db.tasks : db.tasks[i].id = s.id}
    IN  IF found = {} THEN Failed(db, "Can't get to do id \"" \o s.id \o "\".")
        ELSE LET name == db.tasks[CHOOSE j \in found : TRUE].name
                 named == {i \in DOMAIN db.tasks : db.tasks[i].name = name}
             IN  ApplyUpdate(db, CHOOSE i \in named : \A j \in named : i <= j, s)

\* The update script of editTask, on the to-do with the id it names.
RunUpdate(db, s) ==
    LET found == {i \in DOMAIN db.tasks : db.tasks[i].id = s.id}
    IN  IF found = {} THEN Failed(db, "Can't get to do id \"" \o s.id \o "\".")
        ELSE ApplyUpdate(db, CHOOSE j \in found : TRUE, s)

\* The script of addProject.
RunAddProject(db, s) ==
    LET p0 == NewProject(ReadLiteral(s.name))
        p1 == IF s.notes # Undef THEN [p0 EXCEPT !.notes = ReadLiteral(s.notes[1])] ELSE p0
        p2 == IF s.deadline # Undef THEN [p1 EXCEPT !.deadline = s.deadline] ELSE p1
        areaMissing == s.area # Undef /\ ~HasArea(db, ReadLiteral(s.area[1]))
        p3 == IF s.area # Undef /\ ~areaMissing
              THEN [p2 EXCEPT !.area = Some(ReadLiteral(s.area[1]))] ELSE p2
        With(q) == [db EXCEPT !.projects = Append(@, q)]
    IN  IF areaMissing
        THEN Failed(With(p2), "AREA_NOT_FOUND:" \o ReadLiteral(s.area[1]))
        ELSE Ran(With(p3), p3.name)

\* The script of addArea.
RunAddArea(db, s) ==
    Ran([db EXCEPT !.areas = Append(@, ReadLiteral(s.name))], ReadLiteral(s.name))

MonthNames ==
    <<"January", "February", "March", "April", "May", "June", "July",
      "August", "September", "October", "November", "December">>

WeekdayNames ==
    <<"Sunday", "Monday", "Tuesday", "Wednesday", "Thursday", "Friday", "Saturday">>

\* The day of the week of a date, 1 = Sunday.
Weekday(y, m, d) ==
    LET t == <<0, 3, 2, 5, 0, 3, 5, 1, 4, 6, 2, 4>>
        yy == IF m < 3 THEN y - 1 ELSE y
    IN  ((yy + (yy \div 4) - (yy \div 100) + (yy \div 400) + t[m] + d) % 7) + 1

\* (due date of t) as string: the app's text of the date the script set with
\* date "YYYY-MM-DD", e.g. "Wednesday, December 31, 2025 at 12:00:00 AM".
DateAsString(d) ==
    LET year == 1000 * DigitValue(CharAt(d, 1)) + 100 * DigitValue(CharAt(d, 2))
                + 10 * DigitValue(CharAt(d, 3)) + DigitValue(CharAt(d, 4))
        month == DateNumber(d, 6)
        day == DateNumber(d, 9)
    IN  WeekdayNames[Weekday(year, month, day)] \o ", " \o MonthNames[month] \o " "
        \o NumText(day) \o ", " \o SubSeq(d, 1, 4) \o " at 12:00:00 AM"

\* One record of the list reply (the repeat body of the list script).
TaskText(t) ==
    "ID:" \o t.id \o "||" \o "NAME:" \o t.name \o "||" \o "STATUS:" \o t.status \o "||"
    \o (IF t.notes # "" THEN "NOTES:" \o t.notes \o "||" ELSE "")
    \o (IF t.project # Undef THEN "PROJECT:" \o t.project[1] \o "||" ELSE "")
    \o (IF t.area # Undef THEN "AREA:" \o t.area[1] \o "||" ELSE "")
    \o (IF t.due # Undef THEN "DUE:" \o DateAsString(t.due[1]) \o "||" ELSE "")
    \o (IF t.tagNames # "" THEN "TAGS:" \o t.tagNames \o "||" ELSE "")
    \o "TASK_END" \o "\n"

\* set theTasks to to dos / to dos of list "..."
InSource(t, source) == source = "to dos" \/ t.view = source

RECURSIVE ListText(_, _, _)
ListText(db, source, i) ==
    IF i > Len(db.tasks) THEN ""
    ELSE (IF InSource(db.tasks[i], source) THEN TaskText(db.tasks[i]) ELSE "")
         \o ListText(db, source, i + 1)

\* The script of listTasks.
RunList(db, s) == Ran(db, ListText(db, s.source, 1))

\* The application running a dispatched script.
RunScript(db, s) ==
    CASE s.kind = "list" -> RunList(db, s)
      [] s.kind = "add" -> RunAdd(db, s)
      [] s.kind = "complete" -> RunComplete(db, s)
      [] s.kind = "cancel" -> RunCancel(db, s)
      [] s.kind = "find" -> RunFind(db, s)
      [] s.kind = "update" -> RunUpdate(db, s)
      [] s.kind = "addProject" -> RunAddProject(db, s)
      [] s.kind = "addArea" -> RunAddArea(db, s)

(***************************************************************************)
(* things.ts: the list reply parser and the filter engine.                 *)
(***************************************************************************)
\* new Date(dateStr) followed by toISOString().split("T")[0], "NaN" for an
\* invalid date.  V8 reads a YYYY-MM-DD string as a UTC date and rolls a day
\* beyond the month's end over into the next month; its legacy parser
\* rejects a word that follows a number, such as the " at " of the app's
\* date text.
NewDateISO(dateStr) ==
    IF dateRegex(dateStr) /\ DateParses(dateStr)
    THEN LET year == 1000 * DigitValue(CharAt(dateStr, 1)) + 100 * DigitValue(CharAt(dateStr, 2))
                     + 10 * DigitValue(CharAt(dateStr, 3)) + DigitValue(CharAt(dateStr, 4))
             month == DateNumber(dateStr, 6)
             day == DateNumber(dateStr, 9)
             over == day - DaysInMonth(year, month)
         IN  IF over <= 0 THEN dateStr
             ELSE SubSeq(dateStr, 1, 5) \o Pad2(month + 1) \o "-" \o Pad2(over)
    ELSE "NaN"

\* parseDateString as it would be without the test for an invalid date.
parseDateStringUnchecked(dateStr) == NewDateISO(dateStr)

\* parseDateString
parseDateString(dateStr) ==
    LET date == NewDateISO(dateStr)
    IN  IF date = "NaN" THEN dateStr ELSE date

\* value.split(",").map((t) => t.trim())
RECURSIVE TrimAll(_)
TrimAll(parts) ==
    IF parts = <<>> THEN <<>> ELSE <<Trim(Head(parts))>> \o TrimAll(Tail(parts))

\* One field of a record (the body of the loop over fields).
ParseField(task, field) ==
    LET colonIndex == IndexOf(field, ":")
        key == SubSeq(field, 1, colonIndex)
        value == Trim(Substring(field, colonIndex + 1))
    IN  IF colonIndex = -1 THEN task
        ELSE IF value = "" THEN task
        ELSE CASE key = "ID" -> [task EXCEPT !.id = Some(value)]
               [] key = "NAME" -> [task EXCEPT !.name = Some(value)]
               [] key = "STATUS" -> [task EXCEPT !.status = value]
               [] key = "NOTES" -> [task EXCEPT !.notes = Some(value)]
               [] key = "PROJECT" -> [task EXCEPT !.project = Some(value)]
               [] key = "AREA" -> [task EXCEPT !.area = Some(value)]
               [] key = "DUE" -> [task EXCEPT !.dueDate = Some(parseDateString(value))]
               [] key = "TAGS" -> [task EXCEPT !.tags = TrimAll(Split(value, ","))]
               [] OTHER -> task

RECURSIVE ParseFields(_, _)
ParseFields(task, fields) ==
    IF fields = <<>> THEN task
    ELSE ParseFields(ParseField(task, Head(fields)), Tail(fields))

\* EmptyTask as it would be with the tags split from an empty text.
EmptyTaskBlankTag ==
    [id |-> Undef, name |-> Undef, status |-> "open", notes |-> Undef,
     project |-> Undef, area |-> Undef, dueDate |-> Undef, tags |-> <<"">>]

\* The task object a record starts as.
EmptyTask ==
    [id |-> Undef, name |-> Undef, status |-> "open", notes |-> Undef,
     project |-> Undef, area |-> Undef, dueDate |-> Undef, tags |-> <<>>]

RECURSIVE ParseRecords(_)
ParseRecords(taskStrings) ==
    IF taskStrings = <<>> THEN <<>>
    ELSE LET task == ParseFields(EmptyTask, Split(Head(taskStrings), "||"))
         IN  (IF Trim(Head(taskStrings)) # "" /\ task.id # Undef /\ task.name # Undef
              THEN <<task>> ELSE <<>>)
             \o ParseRecords(Tail(taskStrings))

\* parseAppleScriptTaskList as it would be if only the id were required.
RECURSIVE ParseRecordsIdOnly(_)
ParseRecordsIdOnly(taskStrings) ==
    IF taskStrings = <<>> THEN <<>>
    ELSE LET task == ParseFields(EmptyTask, Split(Head(taskStrings), "||"))
         IN  (IF Trim(Head(taskStrings)) # "" /\ task.id # Undef THEN <<task>> ELSE <<>>)
             \o ParseRecordsIdOnly(Tail(taskStrings))

parseAppleScriptTaskListIdOnly(result) ==
    IF result = "" \/ Trim(result) = "" THEN <<>>
    ELSE ParseRecordsIdOnly(Split(result, "TASK_END\n"))

\* parseAppleScriptTaskList
parseAppleScriptTaskList(result) ==
    IF result = "" \/ Trim(result) = "" THEN <<>>
    ELSE ParseRecords(Split(result, "TASK_END\n"))

\* FieldIncludes as it would be without the lower-casing.
FieldIncludesExactCase(field, filter) == field # Undef /\ Includes(field[1], filter)

\* field?.toLowerCase().includes(filterLower)
FieldIncludes(field, filter) ==
    field # Undef /\ Includes(ToLowerCase(field[1]), ToLowerCase(filter))

\* filterTasks
filterTasks(tasks, options) ==
    LET Keep(task) ==
            /\ Truthy(options.project) => FieldIncludes(task.project, options.project[1])
            /\ Truthy(options.area) => FieldIncludes(task.area, options.area[1])
            /\ Truthy(options.tag) =>
                   \E i \in DOMAIN task.tags :
                       Includes(ToLowerCase(task.tags[i]), ToLowerCase(options.tag[1]))
    IN  SelectSeq(tasks, Keep)

\* getListFilterScript as it would be if an unknown name fell back to all tasks.
getListFilterScriptFallback(listName) ==
    IF ~Truthy(listName) THEN Return("to dos")
    ELSE LET normalizedList == ToLowerCase(listName[1])
         IN  CASE normalizedList = "today" -> Return("Today")
               [] normalizedList = "upcoming" -> Return("Upcoming")
               [] normalizedList = "anytime" -> Return("Anytime")
               [] normalizedList = "someday" -> Return("Someday")
               [] OTHER -> Return("to dos")

\* getListFilterScript: the source expression, or the error it throws.
getListFilterScript(listName) ==
    IF ~Truthy(listName) THEN Return("to dos")
    ELSE LET normalizedList == ToLowerCase(listName[1])
         IN  CASE normalizedList = "today" -> Return("Today")
               [] normalizedList = "upcoming" -> Return("Upcoming")
               [] normalizedList = "anytime" -> Return("Anytime")
               [] normalizedList = "someday" -> Return("Someday")
               [] OTHER -> Throw("Error", "Unknown list: " \o listName[1]
                                 \o ". Valid lists are: Today, Upcoming, Anytime, Someday")

\* The accessibility probe script of isThings3Accessible.
ProbeScript == [kind |-> "probe"]

\* listTasks, continued from the reply of the given phase.
listTasks(req, phase, reply) ==
    IF phase = "probe"
    THEN IF ~isThings3Accessible(reply) THEN Finish(NotRunningError)
         ELSE LET source == getListFilterScript(req.list)
              IN  IF source.kind # "ok" THEN Finish(source)
                  ELSE Dispatch([kind |-> "list", source |-> source.message], "main")
    ELSE LET result == executeAppleScript(reply)
         IN  IF result.kind # "ok" THEN Finish(result)
             ELSE Finish([kind |-> "ok", message |-> "",
                          tasks |-> filterTasks(parseAppleScriptTaskList(result.message), req)])

(***************************************************************************)
(* things.ts: the operations that change the store.                        *)
(***************************************************************************)
\* The text of an invalid-date error.
InvalidDateError(d) ==
    Throw("Error", "Invalid date format: " \o d
                   \o ". Expected YYYY-MM-DD format (e.g., 2025-12-31)")

\* An option interpolated into a script when it is truthy.
Clause(o) == IF Truthy(o) THEN Some(escapeAppleScript(o[1])) ELSE Undef

RECURSIVE EscapeAll(_)
EscapeAll(tags) ==
    IF tags = <<>> THEN <<>>
    ELSE <<escapeAppleScript(Head(tags))>> \o EscapeAll(Tail(tags))

\* The script addTask builds.
AddScript(req) ==
    [kind |-> "add", name |-> escapeAppleScript(req.name),
     notes |-> Clause(req.notes),
     due |-> IF Truthy(req.due) THEN req.due ELSE Undef,
     project |-> Clause(req.project),
     area |-> Clause(req.area),
     tags |-> IF Truthy(req.tags)
              THEN Some(EscapeAll(TrimAll(Split(req.tags[1], ","))))
              ELSE Undef]

\* addTask, continued from the reply of the given phase.
addTask(req, phase, reply) ==
    IF phase = "probe"
    THEN IF ~isThings3Accessible(reply) THEN Finish(NotRunningError)
         ELSE IF Truthy(req.due) /\ ~isValidDateFormat(req.due[1])
         THEN Finish(InvalidDateError(req.due[1]))
         ELSE Dispatch(AddScript(req), "main")
    ELSE LET result == executeAppleScript(reply)
         IN  IF result.kind # "ok" THEN Finish(result)
             ELSE Finish(Return(Trim(result.message)))

\* fields[key] after the loop over the parts of one candidate: the value of
\* the last part with that key, undefined when there is none.
RECURSIVE FieldOf(_, _, _)
FieldOf(parts, key, sofar) ==
    IF parts = <<>> THEN sofar
    ELSE LET part == Head(parts)
             colonIndex == IndexOf(part, ":")
         IN  FieldOf(Tail(parts), key,
                     IF colonIndex # -1 /\ SubSeq(part, 1, colonIndex) = key
                     THEN Some(Substring(part, colonIndex + 1))
                     ELSE sofar)

\* `${fields.X}` of a template string
Shown(o) == IF o = Undef THEN "undefined" ELSE o[1]

\* CandidateLine as it would be without the area.
CandidateLineWithoutArea(taskData, index) ==
    LET parts == Split(taskData, "|")
        project == FieldOf(parts, "PROJECT", Undef)
    IN  "  " \o NumText(index + 1) \o ". " \o Shown(FieldOf(parts, "NAME", Undef))
        \o " (Status: " \o Shown(FieldOf(parts, "STATUS", Undef))
        \o (IF Truthy(project) THEN ", Project: " \o project[1] ELSE "")
        \o ")\n"

\* One line of the ambiguous-name error (the forEach body).
CandidateLine(taskData, index) ==
    LET parts == Split(taskData, "|")
        project == FieldOf(parts, "PROJECT", Undef)
        area == FieldOf(parts, "AREA", Undef)
    IN  "  " \o NumText(index + 1) \o ". " \o Shown(FieldOf(parts, "NAME", Undef))
        \o " (Status: " \o Shown(FieldOf(parts, "STATUS", Undef))
        \o (IF Truthy(project) THEN ", Project: " \o project[1] ELSE "")
        \o (IF Truthy(area) THEN ", Area: " \o area[1] ELSE "")
        \o ")\n"

RECURSIVE CandidateLines(_, _)
CandidateLines(tasks, index) ==
    IF tasks = <<>> THEN ""
    ELSE CandidateLine(Head(tasks), index) \o CandidateLines(Tail(tasks), index + 1)

\* The error thrown for a reply that starts with MULTIPLE:.
MultipleError(taskName, trimmedResult) ==
    LET tasksData == Substring(trimmedResult, Len("MULTIPLE:"))
        tasks == SelectSeq(Split(tasksData, "||"), LAMBDA t : Trim(t) # "")
    IN  Throw("Error", "Multiple tasks found with name \"" \o taskName \o "\":\n"
                       \o CandidateLines(tasks, 0)
                       \o "\nPlease be more specific or use unique task names.")

\* The error thrown for a reply that starts with NOT_FOUND:.
NotFoundError(trimmedResult) ==
    Throw("Error", "Task not found: " \o Substring(trimmedResult, Len("NOT_FOUND:")))

\* completeTask, continued from the reply of the given phase.
completeTask(req, phase, reply) ==
    IF phase = "probe"
    THEN IF ~isThings3Accessible(reply) THEN Finish(NotRunningError)
         ELSE Dispatch([kind |-> "complete", name |-> escapeAppleScript(req.task)], "main")
    ELSE LET result == executeAppleScript(reply)
             trimmedResult == Trim(result.message)
         IN  IF result.kind # "ok" THEN Finish(result)
             ELSE IF StartsWith(trimmedResult, "NOT_FOUND:")
             THEN Finish(NotFoundError(trimmedResult))
             ELSE IF StartsWith(trimmedResult, "MULTIPLE:")
             THEN Finish(MultipleError(req.task, trimmedResult))
             ELSE IF StartsWith(trimmedResult, "ALREADY_COMPLETED:")
             THEN Finish(Throw("Error", "Task \""
                     \o Substring(trimmedResult, Len("ALREADY_COMPLETED:"))
                     \o "\" is already completed"))
             ELSE IF StartsWith(trimmedResult, "COMPLETED:")
             THEN Finish(Return(Substring(trimmedResult, Len("COMPLETED:"))))
             ELSE Finish(Throw("Error", "Unexpected result from AppleScript: "
                                        \o trimmedResult))

\* cancelTask, continued from the reply of the given phase.
cancelTask(req, phase, reply) ==
    IF phase = "probe"
    THEN IF ~isThings3Accessible(reply) THEN Finish(NotRunningError)
         ELSE Dispatch([kind |-> "cancel", name |-> escapeAppleScript(req.task)], "main")
    ELSE LET result == executeAppleScript(reply)
             trimmedResult == Trim(result.message)
         IN  IF result.kind # "ok" THEN Finish(result)
             ELSE IF StartsWith(trimmedResult, "NOT_FOUND:")
             THEN Finish(NotFoundError(trimmedResult))
             ELSE IF StartsWith(trimmedResult, "MULTIPLE:")
             THEN Finish(MultipleError(req.task, trimmedResult))
             ELSE IF StartsWith(trimmedResult, "ALREADY_CANCELED:")
             THEN Finish(Throw("Error", "Task \""
                     \o Substring(trimmedResult, Len("ALREADY_CANCELED:"))
                     \o "\" is already canceled"))
             ELSE IF StartsWith(trimmedResult, "ALREADY_COMPLETED:")
             THEN Finish(Throw("Error", "Task \""
                     \o Substring(trimmedResult, Len("ALREADY_COMPLETED:"))
                     \o "\" is already completed and cannot be canceled"))
             ELSE IF StartsWith(trimmedResult, "CANCELED:")
             THEN Finish(Return(Substring(trimmedResult, Len("CANCELED:"))))
             ELSE Finish(Throw("Error", "Unexpected result from AppleScript: "
                                        \o trimmedResult))

\* tagList of editTask: split, trimmed, empty entries dropped
EditTagList(tags) == SelectSeq(TrimAll(Split(tags, ",")), LAMBDA t : t # "")

\* The update script editTask builds for the to-do with id taskId.
UpdateScript(taskId, req) ==
    [kind |-> "update", id |-> taskId,
     name |-> Clause(req.name),
     notes |-> IF req.notes # Undef THEN Some(escapeAppleScript(req.notes[1])) ELSE Undef,
     due |-> IF Truthy(req.due) THEN req.due ELSE Undef,
     tags |-> IF req.tags # Undef THEN Some(EscapeAll(EditTagList(req.tags[1]))) ELSE Undef,
     project |-> Clause(req.project),
     area |-> Clause(req.area)]

\* changes of editTask: one entry per clause put in the update script
Changes(req) ==
    (IF Truthy(req.name) THEN <<"name changed to \"" \o req.name[1] \o "\"">> ELSE <<>>)
    \o (IF req.notes # Undef THEN <<"notes updated">> ELSE <<>>)
    \o (IF Truthy(req.due) THEN <<"due date set to " \o req.due[1]>> ELSE <<>>)
    \o (IF req.tags # Undef
        THEN (IF EditTagList(req.tags[1]) # <<>>
              THEN <<"tags set to: " \o req.tags[1]>> ELSE <<"tags cleared">>)
        ELSE <<>>)
    \o (IF Truthy(req.project) THEN <<"moved to project \"" \o req.project[1] \o "\"">> ELSE <<>>)
    \o (IF Truthy(req.area) THEN <<"moved to area \"" \o req.area[1] \o "\"">> ELSE <<>>)

\* changes.join(", ")
RECURSIVE Join(_, _)
Join(parts, sep) ==
    IF parts = <<>> THEN ""
    ELSE IF Len(parts) = 1 THEN Head(parts)
    ELSE Head(parts) \o sep \o Join(Tail(parts), sep)

\* hasChanges of editTask
hasChanges(req) ==
    \/ req.name # Undef
    \/ req.notes # Undef
    \/ req.due # Undef
    \/ req.tags # Undef
    \/ req.project # Undef
    \/ req.area # Undef

NoChangesError ==
    Throw("Error", "No changes specified. Please provide at least one option to update (--name, --notes, --due, --tags, --project, or --area)")

\* The catch block of editTask and addProject: a tagged error of the script
\* becomes a not-found error, any other error is thrown again.
TaggedError(result, tag, what) ==
    IF Includes(result.message, tag)
    THEN Throw("Error", what \o " not found: " \o Split(result.message, tag)[2])
    ELSE result

\* editTask, continued from the reply of the given phase.
editTask(req, phase, reply) ==
    IF phase = "probe"
    THEN IF ~isThings3Accessible(reply) THEN Finish(NotRunningError)
         ELSE IF ~hasChanges(req) THEN Finish(NoChangesError)
         ELSE IF Truthy(req.due) /\ ~isValidDateFormat(req.due[1])
         THEN Finish(InvalidDateError(req.due[1]))
         ELSE Dispatch([kind |-> "find", name |-> escapeAppleScript(req.task)], "find")
    ELSE IF phase = "find"
    THEN LET findResult == executeAppleScript(reply)
             trimmedResult == Trim(findResult.message)
         IN  IF findResult.kind # "ok" THEN Finish(findResult)
             ELSE IF StartsWith(trimmedResult, "NOT_FOUND:")
             THEN Finish(NotFoundError(trimmedResult))
             ELSE IF StartsWith(trimmedResult, "MULTIPLE:")
             THEN Finish(MultipleError(req.task, trimmedResult))
             ELSE Dispatch(UpdateScript(Substring(trimmedResult, Len("FOUND:")), req),
                           "update")
    ELSE LET result == executeAppleScript(reply)
         IN  IF result.kind = "ok"
             THEN Finish(Return("Task \"" \o Trim(result.message) \o "\" updated: "
                                \o Join(Changes(req), ", ")))
             ELSE IF Includes(result.message, "PROJECT_NOT_FOUND:")
             THEN Finish(TaggedError(result, "PROJECT_NOT_FOUND:", "Project"))
             ELSE Finish(TaggedError(result, "AREA_NOT_FOUND:", "Area"))

\* The script addProject builds.
AddProjectScript(req) ==
    [kind |-> "addProject", name |-> escapeAppleScript(req.name),
     notes |-> Clause(req.notes),
     deadline |-> IF Truthy(req.deadline) THEN req.deadline ELSE Undef,
     area |-> Clause(req.area)]

\* !name || name.trim() === ""
IsBlank(name) == name = "" \/ Trim(name) = ""

\* addProject, continued from the reply of the given phase.
addProject(req, phase, reply) ==
    IF phase = "probe"
    THEN IF ~isThings3Accessible(reply) THEN Finish(NotRunningError)
         ELSE IF IsBlank(req.name)
         THEN Finish(Throw("Error", "Project name cannot be empty"))
         ELSE IF Truthy(req.deadline) /\ ~isValidDateFormat(req.deadline[1])
         THEN Finish(InvalidDateError(req.deadline[1]))
         ELSE Dispatch(AddProjectScript(req), "main")
    ELSE LET result == executeAppleScript(reply)
         IN  IF result.kind = "ok" THEN Finish(Return(Trim(result.message)))
             ELSE Finish(TaggedError(result, "AREA_NOT_FOUND:", "Area"))

\* addArea as it would be if a failed call were tried once more.
addAreaRetries(req, phase, reply) ==
    IF phase = "probe"
    THEN IF ~isThings3Accessible(reply) THEN Finish(NotRunningError)
         ELSE IF IsBlank(req.name)
         THEN Finish(Throw("Error", "Area name cannot be empty"))
         ELSE Dispatch([kind |-> "addArea", name |-> escapeAppleScript(req.name)], "main")
    ELSE LET result == executeAppleScript(reply)
         IN  IF result.kind # "ok"
             THEN (IF phase = "main"
                   THEN Dispatch([kind |-> "addArea", name |-> escapeAppleScript(req.name)],
                                 "retry")
                   ELSE Finish(result))
             ELSE Finish(Return(Trim(result.message)))

\* addArea, continued from the reply of the given phase.
addArea(req, phase, reply) ==
    IF phase = "probe"
    THEN IF ~isThings3Accessible(reply) THEN Finish(NotRunningError)
         ELSE IF IsBlank(req.name)
         THEN Finish(Throw("Error", "Area name cannot be empty"))
         ELSE Dispatch([kind |-> "addArea", name |-> escapeAppleScript(req.name)], "main")
    ELSE LET result == executeAppleScript(reply)
         IN  IF result.kind # "ok" THEN Finish(result)
             ELSE Finish(Return(Trim(result.message)))

(***************************************************************************)
(* The state: the store, and one CLI invocation at a time.                 *)
(***************************************************************************)
VARIABLES
    db,        \* the Things 3 store: to-dos, projects, areas, tags
    db0,       \* the store as it was when the current invocation started
    pc,        \* "idle", "wait" (a script dispatched, its reply awaited), "done"
               \* (the operation returned or threw), "exited" (the result printed)
    phase,     \* which await the handler is at: "probe", "main", "find", "update"
    req,       \* the command and its arguments
    inflight,  \* the script handed to the transport
    reply,     \* the transport's result for it, once there
    outcome,   \* what the operation returned or threw
    sent,      \* the kinds of the scripts dispatched by this invocation, in order
    ops,       \* invocations started so far
    emitted,   \* what the command printed and the exit code it left
    fs,        \* the files install-skill reads and writes
    fs0        \* those files as they were when the current install-skill started

vars == <<db, db0, pc, phase, req, inflight, reply, outcome, sent, ops, emitted, fs, fs0>>

NoScript == [kind |-> "none"]

NoReply == [none |-> TRUE]

NoRequest == [cmd |-> "none"]

NoOutcome == [kind |-> "none"]

NoOutput == [form |-> "none"]

\* The commands that reach Things 3 touch no file.
NoFiles == [source |-> "none"]

(***************************************************************************)
(* The stores a run starts from.                                           *)
(***************************************************************************)
EmptyStore ==
    [tasks |-> <<>>, projects |-> <<NewProject("Home")>>, areas |-> <<"Work">>,
     tags |-> {}, next |-> 1]

\* Two open to-dos of the same name, told apart by project and area.
TwinStore ==
    [EmptyStore EXCEPT
        !.tasks = <<[NewTask("T1", "Pay") EXCEPT !.project = Some("Home"), !.view = "Today"],
                    [NewTask("T2", "Pay") EXCEPT !.area = Some("Work")]>>,
        !.next = 3]

\* A completed and a canceled to-do.
ClosedStore ==
    [EmptyStore EXCEPT
        !.tasks = <<[NewTask("T1", "Pay") EXCEPT !.status = "completed"],
                    [NewTask("T2", "Plan") EXCEPT !.status = "canceled"]>>,
        !.next = 3]

\* Open to-dos with notes, a due date, a tag and a container.
OpenStore ==
    [EmptyStore EXCEPT
        !.tasks = <<[NewTask("T1", "Pay") EXCEPT !.notes = "n", !.due = Some("2025-12-31"),
                                                !.tagNames = "a", !.area = Some("Work"),
                                                !.view = "Someday"],
                    [NewTask("T2", "Plan") EXCEPT !.notes = "a||b", !.view = "Today"]>>,
        !.tags = {"a"},
        !.next = 3]

InitStores == {EmptyStore, TwinStore, ClosedStore, OpenStore}

(***************************************************************************)
(* The command lines offered to the CLI.                                   *)
(***************************************************************************)
ListRequests ==
    {[cmd |-> "list", list |-> l, project |-> p, area |-> Undef, tag |-> Undef] :
        l \in {Undef, Some("Today"), Some("someday"), Some("bogus"), Some("")},
        p \in {Undef, Some("ho")}}

AddRequest(name, notes, due, tags, project, area) ==
    [cmd |-> "add", name |-> name, notes |-> notes, due |-> due, tags |-> tags,
     project |-> project, area |-> area]

AddRequests ==
    {AddRequest("Pay", Undef, Undef, Undef, Undef, Undef),
     AddRequest("", Undef, Undef, Undef, Undef, Undef),
     AddRequest("Plan", Some("n"), Some("2025-12-31"), Some("a, b"), Undef, Undef),
     AddRequest("Pay", Undef, Some("2025-02-30"), Undef, Undef, Undef),
     AddRequest("Pay", Undef, Some("2025-13-01"), Undef, Undef, Undef),
     AddRequest("Pay", Undef, Some("tomorrow"), Undef, Undef, Undef),
     AddRequest("Pay", Undef, Undef, Undef, Some("Home"), Undef),
     AddRequest("Pay", Undef, Undef, Undef, Some("Nope"), Undef),
     AddRequest("Pay", Undef, Undef, Undef, Undef, Some("Work")),
     AddRequest("Pay", Undef, Undef, Undef, Undef, Some("Nowhere")),
     AddRequest("Pay", Undef, Undef, Undef, Some("Home"), Some("Work"))}

EditRequest(task, name, notes, due, tags, project, area) ==
    [cmd |-> "edit", task |-> task, name |-> name, notes |-> notes, due |-> due,
     tags |-> tags, project |-> project, area |-> area]

EditRequests ==
    {EditRequest("Pay", Undef, Undef, Undef, Undef, Undef, Undef),
     EditRequest("Pay", Some("Plan"), Undef, Undef, Undef, Undef, Undef),
     EditRequest("Pay", Undef, Some(""), Undef, Undef, Undef, Undef),
     EditRequest("Pay", Undef, Undef, Some("2026-01-15"), Undef, Undef, Undef),
     EditRequest("Pay", Undef, Undef, Some("2025-02-30"), Undef, Undef, Undef),
     EditRequest("Pay", Undef, Undef, Some("12/31/2025"), Undef, Undef, Undef),
     EditRequest("Pay", Undef, Undef, Some(""), Undef, Undef, Undef),
     EditRequest("Pay", Undef, Undef, Undef, Some("b,c"), Undef, Undef),
     EditRequest("Pay", Undef, Undef, Undef, Some(""), Undef, Undef),
     EditRequest("Pay", Undef, Undef, Undef, Undef, Some("Home"), Undef),
     EditRequest("Pay", Undef, Some("m"), Undef, Undef, Some("Nope"), Undef),
     EditRequest("Pay", Undef, Undef, Undef, Undef, Undef, Some("Work")),
     EditRequest("Pay", Undef, Undef, Undef, Undef, Undef, Some("Nowhere")),
     EditRequest("Zed", Undef, Some("m"), Undef, Undef, Undef, Undef),
     EditRequest("Plan", Some("Pay"), Undef, Undef, Undef, Undef, Undef)}

TargetNames == {"Pay", "Plan", "Zed", "Zed "}

CompleteRequests == {[cmd |-> "complete", task |-> n] : n \in TargetNames}

CancelRequests == {[cmd |-> "cancel", task |-> n] : n \in TargetNames}

AddProjectRequest(name, area, notes, deadline) ==
    [cmd |-> "addProject", name |-> name, area |-> area, notes |-> notes,
     deadline |-> deadline]

AddProjectRequests ==
    {AddProjectRequest("Trip", Undef, Undef, Undef),
     AddProjectRequest("", Undef, Undef, Undef),
     AddProjectRequest(" ", Undef, Undef, Undef),
     AddProjectRequest("Trip", Some("Work"), Some("n"), Some("2025-12-31")),
     AddProjectRequest("Trip", Some("Nowhere"), Undef, Undef),
     AddProjectRequest("Trip", Undef, Undef, Some("2025-02-30")),
     AddProjectRequest("Trip", Undef, Undef, Some("2025-13-01"))}

AddAreaRequests == {[cmd |-> "addArea", name |-> n] : n \in {"Home", "", " "}}

Requests ==
    ListRequests \cup AddRequests \cup EditRequests \cup CompleteRequests
    \cup CancelRequests \cup AddProjectRequests \cup AddAreaRequests

(***************************************************************************)
(* The transport (runAppleScript): what it may answer.                     *)
(***************************************************************************)
\* The probe script's output: whether a Things3 process exists.
ProbeReplies == {"true", "false", "true\n"}

\* Native error texts of a transport failure that is not the script's own.
TransportFaults ==
    {"execution error: Things3 got an error: Application isn't running. (-600)",
     "execution error: Things3 got an error: application isn't running",
     "the application is not running",
     "Can't get application \"Things3\".",
     "osascript: command not found",
     "execution error: Things3 got an error: AppleEvent timed out. (-1712)"}

(***************************************************************************)
(* Actions.                                                                *)
(***************************************************************************)
Init ==
    /\ db \in InitStores
    /\ db0 = db
    /\ pc = "idle"
    /\ phase = "none"
    /\ req = NoRequest
    /\ inflight = NoScript
    /\ reply = NoReply
    /\ outcome = NoOutcome
    /\ sent = <<>>
    /\ ops = 0
    /\ emitted = NoOutput
    /\ fs = NoFiles
    /\ fs0 = NoFiles

\* A command is run: every operation starts with verifyThings3Access, which
\* hands the probe script to the bridge.
Start(r) ==
    /\ pc = "idle"
    /\ ops < MaxOps
    /\ r.cmd = "add" => Len(db.tasks) < MaxTasks
    /\ req' = r
    /\ pc' = "wait"
    /\ phase' = "probe"
    /\ inflight' = ProbeScript
    /\ sent' = <<ProbeScript.kind>>
    /\ reply' = NoReply
    /\ outcome' = NoOutcome
    /\ db0' = db
    /\ ops' = ops + 1
    /\ UNCHANGED <<db, emitted, fs, fs0>>

\* System Events answers the probe script.
BridgeProbe ==
    /\ pc = "wait" /\ reply = NoReply /\ inflight.kind = "probe"
    /\ \E text \in ProbeReplies : reply' = [ok |-> TRUE, text |-> text]
    /\ UNCHANGED <<db, db0, pc, phase, req, inflight, outcome, sent, ops, emitted, fs, fs0>>

\* Things 3 runs the script in flight.
BridgeRun ==
    /\ pc = "wait" /\ reply = NoReply /\ inflight.kind \notin {"none", "probe"}
    /\ LET r == RunScript(db, inflight)
       IN  /\ db' = r.db
           /\ reply' = [ok |-> r.ok, text |-> r.text]
    /\ UNCHANGED <<db0, pc, phase, req, inflight, outcome, sent, ops, emitted, fs, fs0>>

\* The transport fails without the script having run.
BridgeFault ==
    /\ pc = "wait" /\ reply = NoReply /\ inflight.kind # "none"
    /\ \E text \in TransportFaults : reply' = [ok |-> FALSE, text |-> text]
    /\ UNCHANGED <<db, db0, pc, phase, req, inflight, outcome, sent, ops, emitted, fs, fs0>>

\* What runAppleScript may resolve with in place of the lookup's own result.
UnexpectedReplies == {"", "missing value"}

\* The transport resolves the lookup of edit with text the script did not return.
BridgeUnexpected ==
    /\ pc = "wait" /\ reply = NoReply /\ inflight.kind = "find"
    /\ \E text \in UnexpectedReplies : reply' = [ok |-> TRUE, text |-> text]
    /\ UNCHANGED <<db, db0, pc, phase, req, inflight, outcome, sent, ops, emitted, fs, fs0>>

\* Between the lookup and the update of an edit another client of Things 3
\* makes a to-do bearing the name just resolved; it comes first or last among
\* the to-dos.
OtherClient ==
    /\ pc = "wait" /\ reply = NoReply /\ inflight.kind = "update"
    /\ \E i \in DOMAIN db.tasks : db.tasks[i].id = inflight.id
    /\ Len(db.tasks) = Len(db0.tasks)
    /\ Len(db.tasks) < MaxTasks
    /\ LET t == NewTask(IdText[db.next], req.task)
       IN  \E first \in BOOLEAN :
               db' = [db EXCEPT !.tasks = IF first THEN <<t>> \o @ ELSE Append(@, t),
                                !.next = @ + 1]
    /\ UNCHANGED <<db0, pc, phase, req, inflight, reply, outcome, sent, ops, emitted, fs, fs0>>

\* The handler resumes from its await with the step it decided on.
Resume(step) ==
    /\ IF step.type = "dispatch"
       THEN /\ inflight' = step.script
            /\ phase' = step.phase
            /\ sent' = Append(sent, step.script.kind)
            /\ UNCHANGED <<pc, outcome>>
       ELSE /\ inflight' = NoScript
            /\ outcome' = step.outcome
            /\ pc' = "done"
            /\ UNCHANGED <<phase, sent>>
    /\ reply' = NoReply
    /\ UNCHANGED <<db, db0, req, ops, emitted, fs, fs0>>

Replied(cmd) == pc = "wait" /\ reply # NoReply /\ req.cmd = cmd

ListTasks == Replied("list") /\ Resume(listTasks(req, phase, reply))

AddTask == Replied("add") /\ Resume(addTask(req, phase, reply))

EditTask == Replied("edit") /\ Resume(editTask(req, phase, reply))

CompleteTask == Replied("complete") /\ Resume(completeTask(req, phase, reply))

CancelTask == Replied("cancel") /\ Resume(cancelTask(req, phase, reply))

AddProject == Replied("addProject") /\ Resume(addProject(req, phase, reply))

AddArea == Replied("addArea") /\ Resume(addArea(req, phase, reply))

\* The key under which a command's JSON document carries its result.
SuccessKey(cmd) ==
    CASE cmd \in {"add", "complete", "cancel"} -> "task"
      [] cmd = "edit" -> "message"
      [] cmd = "addProject" -> "project"
      [] cmd = "addArea" -> "area"

\* What a command puts before its result in plain text.
SuccessLabel(cmd) ==
    CASE cmd = "add" -> "Task created: "
      [] cmd = "edit" -> ""
      [] cmd = "complete" -> "Task completed: "
      [] cmd = "cancel" -> "Task canceled: "
      [] cmd = "addProject" -> "Project created: "
      [] cmd = "addArea" -> "Area created: "

\* displayError: the message on the error stream.
displayError(message) == [stream |-> "stderr", form |-> "text", text |-> "Error: " \o message]

\* The JSON document of a failure, on the output stream.
ErrorDocument(message) ==
    [stream |-> "stdout", form |-> "json", success |-> FALSE, error |-> message]

\* The action of a command once its operation has returned or thrown:
\* what it prints, given the --json option, and the exit code.
CommandAction(cmd, json, result) ==
    IF result.kind = "ok"
    THEN [json |-> json, exit |-> 0,
          out |-> IF cmd = "list"
                  THEN (IF json THEN [stream |-> "stdout", form |-> "json", tasks |-> result.tasks]
                        ELSE IF result.tasks = <<>>
                        THEN [stream |-> "stdout", form |-> "text", text |-> "No tasks found."]
                        ELSE [stream |-> "stdout", form |-> "table", rows |-> result.tasks])
                  ELSE (IF json
                        THEN [stream |-> "stdout", form |-> "json", success |-> TRUE,
                              key |-> SuccessKey(cmd), value |-> result.message]
                        ELSE [stream |-> "stdout", form |-> "text",
                              text |-> SuccessLabel(cmd) \o result.message])]
    ELSE [json |-> json, exit |-> 1,
          out |-> IF cmd = "list" THEN displayError(result.message)
                  ELSE IF json THEN ErrorDocument(result.message)
                  ELSE displayError(result.message)]

\* The command prints its result or its error; --json is read only here.
Report ==
    /\ pc = "done"
    /\ pc' = "exited"
    /\ \E json \in BOOLEAN : emitted' = CommandAction(req.cmd, json, outcome)
    /\ UNCHANGED <<db, db0, phase, req, inflight, reply, outcome, sent, ops, fs, fs0>>

\* The process exits; the next command line starts a new one.
Exit ==
    /\ pc = "exited"
    /\ pc' = "idle"
    /\ emitted' = NoOutput
    /\ phase' = "none"
    /\ req' = NoRequest
    /\ outcome' = NoOutcome
    /\ sent' = <<>>
    /\ db0' = db
    /\ UNCHANGED <<db, inflight, reply, ops, fs, fs0>>

Next ==
    \/ \E r \in Requests : Start(r)
    \/ BridgeProbe
    \/ BridgeRun
    \/ BridgeFault
    \/ ListTasks
    \/ AddTask
    \/ EditTask
    \/ CompleteTask
    \/ CancelTask
    \/ AddProject
    \/ AddArea
    \/ Report
    \/ Exit

Spec == Init /\ [][Next]_vars

\* The program on a transport that may also resolve a lookup with text the
\* script did not return.
UnexpectedNext ==
    \/ Next
    \/ BridgeUnexpected

UnexpectedSpec == Init /\ [][UnexpectedNext]_vars

\* The edit command run while another client of Things 3 is at work.
RaceNext ==
    \/ \E r \in EditRequests : Start(r)
    \/ BridgeProbe
    \/ BridgeRun
    \/ BridgeFault
    \/ OtherClient
    \/ EditTask
    \/ Report
    \/ Exit

RaceSpec == Init /\ [][RaceNext]_vars

(***************************************************************************)
(* Vocabulary of the properties.                                           *)
(***************************************************************************)
Has(seq, x) == \E i \in DOMAIN seq : seq[i] = x

\* The kinds of the scripts that create or modify an entity.
MutatingKinds == {"add", "update", "complete", "cancel", "addProject", "addArea"}

\* The bridge's own failures.
IsNotAccessible(o) == o.kind = "Things3NotAccessibleError"

IsExecutionFailed(o) == o.kind = "AppleScriptError"

\* The operation got past the probe, and every reply reached the handler
\* as the script's own answer.
Delivered == pc = "done" /\ Len(sent) >= 2 /\ ~IsNotAccessible(outcome) /\ ~IsExecutionFailed(outcome)

IsAmbiguousName(o) ==
    o.kind = "Error" /\ StartsWith(o.message, "Multiple tasks found with name \"")

IsAlreadyTerminal(o) ==
    /\ o.kind = "Error"
    /\ StartsWith(o.message, "Task \"")
    /\ \/ Includes(o.message, "\" is already completed")
       \/ Includes(o.message, "\" is already canceled")

IsValidationError(o) ==
    /\ o.kind = "Error"
    /\ \/ StartsWith(o.message, "Invalid date format: ")
       \/ StartsWith(o.message, "No changes specified.")
       \/ Includes(o.message, " name cannot be empty")
       \/ StartsWith(o.message, "Unknown list: ")

\* The to-dos of the store the invocation started from that bear its target name.
Targets == MatchingTasks(db0, req.task)

C2_TerminalStatusIsFinal ==
    [][\A i \in DOMAIN db.tasks :
          db.tasks[i].status # "open" => db'.tasks[i].status = db.tasks[i].status]_vars

(***************************************************************************)
(* C3: complete on the one to-do of that name when it is completed, and    *)
(* cancel on it when it is canceled or completed, leave its status as it   *)
(* was and end with the already-in-terminal-state error.                   *)
(***************************************************************************)
AlreadyTerminalCase ==
    /\ req.cmd \in {"complete", "cancel"}
    /\ Cardinality(Targets) = 1
    /\ LET t == db0.tasks[TheTask(db0, req.task)]
       IN  \/ req.cmd = "complete" /\ t.status = "completed"
           \/ req.cmd = "cancel" /\ t.status \in {"canceled", "completed"}

C3_AlreadyTerminalIsReported ==
    AlreadyTerminalCase =>
        /\ db.tasks = db0.tasks
        /\ Delivered =>
              /\ IsAlreadyTerminal(outcome)
              /\ ~StartsWith(outcome.message, "Unexpected result")

C3_Witness ==
    /\ pc = "done"
    /\ AlreadyTerminalCase
    /\ req.cmd = "cancel"
    /\ db0.tasks[TheTask(db0, req.task)].status = "completed"
    /\ IsAlreadyTerminal(outcome)

(***************************************************************************)
(* C4: for add, edit, add-project and add-area a request with a malformed  *)
(* date, an empty required name, or (edit) no field set reaches the bridge *)
(* with no script at all, the probe included, and ends with a validation   *)
(* error.                                                                  *)
(***************************************************************************)
SuppliedDate ==
    IF req.cmd \in {"add", "edit"} THEN req.due
    ELSE IF req.cmd = "addProject" THEN req.deadline
    ELSE Undef

MalformedDate == Truthy(SuppliedDate) /\ ~IsRealDate(SuppliedDate[1])

EmptyRequiredName == req.cmd \in {"add", "addProject", "addArea"} /\ req.name = ""

NoFieldSet ==
    /\ req.cmd = "edit"
    /\ \A o \in {req.name, req.notes, req.due, req.tags, req.project, req.area} : o = Undef

C4_ValidationBeforeAnyBridgeCall ==
    (MalformedDate \/ EmptyRequiredName \/ NoFieldSet) =>
        /\ sent = <<>>
        /\ pc = "done" => IsValidationError(outcome)

(***************************************************************************)
(* C5: in every operation, when the probe fails or answers anything but    *)
(* true, the step that takes the answer ends the operation with the        *)
(* not-accessible error and dispatches nothing.                            *)
(***************************************************************************)
ProbeAnswered == pc = "wait" /\ phase = "probe" /\ reply # NoReply

ProbeSaysTrue == reply.ok /\ Trim(reply.text) = "true"

C5_FailedProbeStopsTheOperation ==
    [][(ProbeAnswered /\ ~ProbeSaysTrue) =>
          /\ pc' = "done"
          /\ outcome' = NotRunningError
          /\ sent' = <<"probe">>
          /\ db' = db0]_vars

C5_Witness ==
    /\ pc = "done"
    /\ req.cmd = "add"
    /\ outcome = NotRunningError
    /\ sent = <<"probe">>

(***************************************************************************)
(* C6 as stated: one invocation makes at most two bridge calls.            *)
(***************************************************************************)
C6_AtMostTwoCalls == Len(sent) <= 2

(***************************************************************************)
(* C6, amended: one invocation makes at most three bridge calls, one after *)
(* the other and the probe first; edit follows it with a resolution call   *)
(* and then a mutation call, every other operation with a single call.     *)
(***************************************************************************)
CallsOf(cmd) ==
    CASE cmd = "edit" -> <<"probe", "find", "update">>
      [] cmd = "none" -> <<>>
      [] OTHER -> <<"probe", cmd>>

C6_CallSequence ==
    /\ Len(sent) <= Len(CallsOf(req.cmd))
    /\ sent = SubSeq(CallsOf(req.cmd), 1, Len(sent))
    /\ pc = "wait" => inflight.kind = sent[Len(sent)]

C6_Witness == pc = "done" /\ sent = <<"probe", "find", "update">> /\ outcome.kind = "ok"

(***************************************************************************)
(* C7: when add, edit or add-project names a project or area the store     *)
(* does not hold and the script's answer reaches the handler, the          *)
(* operation ends with a not-found error that says project or area and     *)
(* carries the name, never with the bridge's own errors.                   *)
(***************************************************************************)
MissingProject ==
    req.cmd \in {"add", "edit"} /\ Truthy(req.project) /\ ~HasProject(db0, req.project[1])

MissingArea ==
    /\ req.cmd \in {"add", "edit", "addProject"}
    /\ Truthy(req.area)
    /\ ~HasArea(db0, req.area[1])

ContainerLookupAnswered ==
    /\ pc = "wait"
    /\ inflight.kind \in {"add", "update", "addProject"}
    /\ reply # NoReply
    /\ reply.text \notin TransportFaults
    /\ MissingProject \/ MissingArea

C7_MissingContainerIsNotFound ==
    [][ContainerLookupAnswered =>
          /\ pc' = "done"
          /\ outcome'.kind = "Error"
          /\ MissingProject =>
                StartsWith(outcome'.message, "Project not found: " \o req.project[1])
          /\ (~MissingProject /\ MissingArea) =>
                StartsWith(outcome'.message, "Area not found: " \o req.area[1])]_vars

(***************************************************************************)
(* C8: executeAppleScript hands back the script's text unchanged when the  *)
(* script succeeds; on failure it raises the not-accessible error exactly  *)
(* when the native text holds one of the four known substrings, and        *)
(* otherwise the execution-failed error wrapping the native text.          *)
(***************************************************************************)
HoldsKnownSubstring(text) ==
    \/ Includes(text, "application isn't running")
    \/ Includes(text, "application is not running")
    \/ Includes(text, "Can't get application")
    \/ Includes(text, "not found")

C8_BridgeErrorMapping ==
    reply # NoReply =>
        LET e == executeAppleScript(reply)
        IN  IF reply.ok THEN e = [kind |-> "ok", message |-> reply.text]
            ELSE IF HoldsKnownSubstring(reply.text)
            THEN e = [kind |-> "Things3NotAccessibleError",
                      message |-> "Things 3 is not running or not accessible"]
            ELSE e = [kind |-> "AppleScriptError",
                      message |-> "AppleScript execution failed: " \o reply.text]

C8_Witness ==
    /\ reply # NoReply
    /\ ~reply.ok
    /\ Includes(reply.text, "Can't get application")
    /\ IsNotAccessible(executeAppleScript(reply))

(***************************************************************************)
(* C9 as stated: a list value outside the four names is refused with a     *)
(* validation error before any script is executed.                         *)
(***************************************************************************)
KnownLists == {"today", "upcoming", "anytime", "someday"}

UnknownList == req.cmd = "list" /\ Truthy(req.list) /\ ToLowerCase(req.list[1]) \notin KnownLists

SourceOf(l) ==
    IF ~Truthy(l) THEN "to dos"
    ELSE CASE ToLowerCase(l[1]) = "today" -> "Today"
           [] ToLowerCase(l[1]) = "upcoming" -> "Upcoming"
           [] ToLowerCase(l[1]) = "anytime" -> "Anytime"
           [] ToLowerCase(l[1]) = "someday" -> "Someday"

C10_InvalidDateNeverReachesTheStore ==
    (req.cmd \in {"add", "edit", "addProject"} /\ MalformedDate) =>
        /\ \A k \in MutatingKinds : ~Has(sent, k)
        /\ db = db0

(***************************************************************************)
(* The helpers of things.ts called on their own: req is the call, outcome  *)
(* what it returned; the store and the bridge take no part.                *)
(***************************************************************************)
MaxMonth == 13

MaxDay == 32

\* Strings of the YYYY-MM-DD shape, real dates and others, and strings of
\* other shapes.
DateInputs ==
    {y \o "-" \o Pad2(m) \o "-" \o Pad2(d) :
        y \in {"2024", "2025", "2100"}, m \in 0..MaxMonth, d \in 0..MaxDay}
    \cup {"", "tomorrow", "12/31/2025", "2025-1-01", "20251231", "2025-12-31T00:00",
          " 2025-12-31", "2025-12-31\n", "2025/12/31", "25-12-31"}

DateCalls == {[cmd |-> "isValidDateFormat", dateStr |-> d] : d \in DateInputs}

\* Everything but the call and its result.
Detached == UNCHANGED <<db, db0, phase, inflight, reply, sent, ops, emitted, fs, fs0>>

Returned(v) ==
    /\ pc = "idle"
    /\ pc' = "done"
    /\ outcome' = [kind |-> "ok", value |-> v]
    /\ UNCHANGED req
    /\ Detached

CallIsValidDateFormat ==
    req.cmd = "isValidDateFormat" /\ Returned(isValidDateFormat(req.dateStr))

(***************************************************************************)
(* C11: isValidDateFormat returns true for every YYYY-MM-DD string that is *)
(* a real calendar date and false for every other string.                  *)
(***************************************************************************)
C11_ValidExactlyForRealDates ==
    (pc = "done" /\ req.cmd = "isValidDateFormat") =>
        (outcome.value <=> IsRealDate(req.dateStr))

MaxLen == 3

\* The characters escaping is about, and two it must leave alone.
EscapeAlphabet == {"a", "n", "\\", "\"", "\n", "\r"}

RECURSIVE StringsUpTo(_)
StringsUpTo(n) ==
    IF n = 0 THEN {""}
    ELSE LET shorter == StringsUpTo(n - 1)
         IN  shorter \cup {t \o c : t \in shorter, c \in EscapeAlphabet}

EscapeInputs == StringsUpTo(MaxLen)

EscapeCalls == {[cmd |-> "escapeAppleScript", str |-> t] : t \in EscapeInputs}

CallEscapeAppleScript ==
    req.cmd = "escapeAppleScript" /\ Returned(escapeAppleScript(req.str))

(***************************************************************************)
(* C12: for every string, the escaped string holds no double quote that is *)
(* not escaped and no line break, the script reads it back as exactly the  *)
(* original string, and no other string has the same escaped form.         *)
(***************************************************************************)
\* A double quote outside an escape pair, or a backslash left without its pair.
RECURSIVE EndsLiteralEarly(_)
EndsLiteralEarly(s) ==
    IF Len(s) = 0 THEN FALSE
    ELSE IF CharAt(s, 1) = "\\"
    THEN Len(s) = 1 \/ EndsLiteralEarly(Substring(s, 2))
    ELSE CharAt(s, 1) = "\"" \/ EndsLiteralEarly(Substring(s, 1))

EscapedForms == {<<t, escapeAppleScript(t)>> : t \in EscapeInputs}

C12_EscapedLiteralDenotesTheString ==
    (pc = "done" /\ req.cmd = "escapeAppleScript") =>
        /\ ~EndsLiteralEarly(outcome.value)
        /\ ~Includes(outcome.value, "\n")
        /\ ~Includes(outcome.value, "\r")
        /\ ReadLiteral(outcome.value) = req.str
        /\ \A p \in EscapedForms : p[2] = outcome.value => p[1] = req.str

C12_Witness ==
    /\ pc = "done"
    /\ req.cmd = "escapeAppleScript"
    /\ req.str = "\"\\n"
    /\ outcome.value = "\\\"\\\\n"

MaxRecords == 2

\* Records of a list response, each a sequence of <<key, value>> fields:
\* complete ones, ones without ID or NAME, ones whose ID or NAME is empty,
\* and due dates of the three kinds.
RecordInputs ==
    {<< <<"ID", "1">>, <<"NAME", "X">>, <<"STATUS", "open">> >>,
     << <<"ID", "T9">>, <<"NAME", "Buy milk">>, <<"STATUS", "canceled">> >>,
     << <<"ID", "2">>, <<"NAME", "Y">>, <<"STATUS", "completed">>, <<"NOTES", "n">>,
        <<"PROJECT", "Home">>, <<"DUE", "Monday, December 9, 2025 at 12:00:00 AM">>,
        <<"TAGS", "a, b">> >>,
     << <<"NAME", "Z">>, <<"STATUS", "open">> >>,
     << <<"ID", "4">>, <<"STATUS", "open">> >>,
     << <<"ID", "5">>, <<"NAME", "W">>, <<"STATUS", "canceled">>, <<"AREA", "Work">>,
        <<"DUE", "soon">> >>,
     << <<"ID", "6">>, <<"NAME", "V">>, <<"STATUS", "open">>, <<"DUE", "2025-12-31">> >>,
     << <<"ID", "">>, <<"NAME", "U">>, <<"STATUS", "open">> >>,
     << <<"ID", "7">>, <<"NAME", "">>, <<"STATUS", "open">> >>,
     << <<"STATUS", "open">>, <<"COLOR", "red">> >>,
     << <<"ID", "8">>, <<"NAME", "S">>, <<"STATUS", "open">>, <<"DUE", "2025-13-01">> >>}

RECURSIVE ResponsesUpTo(_)
ResponsesUpTo(n) ==
    IF n = 0 THEN {<<>>}
    ELSE LET shorter == ResponsesUpTo(n - 1)
         IN  shorter \cup {Append(rs, r) : rs \in shorter, r \in RecordInputs}

RECURSIVE FieldsText(_)
FieldsText(fields) ==
    IF fields = <<>> THEN ""
    ELSE Head(fields)[1] \o ":" \o Head(fields)[2] \o "||" \o FieldsText(Tail(fields))

\* The response text the list script builds from the records.
RECURSIVE ResponseText(_)
ResponseText(records) ==
    IF records = <<>> THEN ""
    ELSE FieldsText(Head(records)) \o "TASK_END" \o "\n" \o ResponseText(Tail(records))

BlankResponses == {" ", "\n", " \n\t "}

ParseCalls ==
    {[cmd |-> "parseAppleScriptTaskList", records |-> rs, result |-> ResponseText(rs)] :
        rs \in ResponsesUpTo(MaxRecords)}
    \cup {[cmd |-> "parseAppleScriptTaskList", records |-> <<>>, result |-> b] :
            b \in BlankResponses}

CallParseAppleScriptTaskList ==
    req.cmd = "parseAppleScriptTaskList" /\ Returned(parseAppleScriptTaskList(req.result))

Parsed == pc = "done" /\ req.cmd = "parseAppleScriptTaskList"

\* The value a record gives for a key, "" when it gives none.
ValueOf(record, key) ==
    LET at == {i \in DOMAIN record : record[i][1] = key}
    IN  IF at = {} THEN "" ELSE record[CHOOSE i \in at : \A j \in at : j <= i][2]

Lacks(record, key) == ValueOf(record, key) = ""

WellFormed(record) == ~Lacks(record, "ID") /\ ~Lacks(record, "NAME")

WellFormedRecords == SelectSeq(req.records, WellFormed)

(***************************************************************************)
(* C13: the parser returns one task for each record that gives an ID and a *)
(* NAME, in the order of the response, and none for the others: of N       *)
(* records with exactly one malformed it returns N-1.                      *)
(***************************************************************************)
C13_MalformedRecordsAreDropped ==
    Parsed =>
        /\ Len(outcome.value) = Len(WellFormedRecords)
        /\ \A i \in DOMAIN outcome.value :
              /\ outcome.value[i].id = Some(ValueOf(WellFormedRecords[i], "ID"))
              /\ outcome.value[i].name = Some(ValueOf(WellFormedRecords[i], "NAME"))
        /\ Len(WellFormedRecords) = Len(req.records) - 1 =>
              Len(outcome.value) = Len(req.records) - 1

C13_Witness ==
    /\ Parsed
    /\ Len(req.records) = MaxRecords
    /\ Lacks(req.records[1], "NAME")
    /\ WellFormed(req.records[MaxRecords])
    /\ Len(outcome.value) = MaxRecords - 1

(***************************************************************************)
(* C14: the parser returns for every response; an empty or blank response  *)
(* gives no tasks; a due value the date parser cannot read is kept as it   *)
(* is on its task, and the other records are returned all the same.        *)
(***************************************************************************)
C14_LenientParsing ==
    Parsed =>
        /\ outcome.kind = "ok"
        /\ (req.result = "" \/ req.result \in BlankResponses) => outcome.value = <<>>
        /\ Len(outcome.value) = Len(WellFormedRecords)
        /\ \A i \in DOMAIN outcome.value :
              LET due == ValueOf(WellFormedRecords[i], "DUE")
              IN  (due # "" /\ NewDateISO(due) = "NaN") =>
                      outcome.value[i].dueDate = Some(due)

C14_Witness ==
    /\ Parsed
    /\ Len(outcome.value) = 2
    /\ ValueOf(req.records[1], "DUE") = "soon"
    /\ outcome.value[1].dueDate = Some("soon")
    /\ outcome.value[2].id = Some("1")

(***************************************************************************)
(* C15: a record of the fields ID, NAME and STATUS alone parses to a task  *)
(* with that id, name and status, no tags, and no notes, project, area or  *)
(* due date.                                                               *)
(***************************************************************************)
OnlyRequiredFields(record) ==
    /\ Len(record) = 3
    /\ record[1][1] = "ID" /\ record[2][1] = "NAME" /\ record[3][1] = "STATUS"
    /\ \A i \in 1..3 : record[i][2] # ""

MaxFiltered == 3

\* A parsed task with the fields the filters look at.
FilterTask(id, project, area, tags) ==
    [id |-> Some(id), name |-> Some("t"), status |-> "open", notes |-> Undef,
     project |-> project, area |-> area, dueDate |-> Undef, tags |-> tags]

FilterTaskInputs ==
    {FilterTask("1", Some("Website Redesign"), Undef, <<>>),
     FilterTask("2", Some("Backend"), Undef, <<"Urgent">>),
     FilterTask("3", Undef, Some("Work"), <<"web", "home">>),
     FilterTask("4", Some("web"), Some("Homework"), <<"x">>)}

RECURSIVE TaskListsUpTo(_)
TaskListsUpTo(n) ==
    IF n = 0 THEN {<<>>}
    ELSE LET shorter == TaskListsUpTo(n - 1)
         IN  shorter \cup {Append(ts, t) : ts \in shorter, t \in FilterTaskInputs}

FilterCalls ==
    {[cmd |-> "filterTasks", tasks |-> ts,
      options |-> [list |-> Undef, project |-> p, area |-> a, tag |-> g]] :
        ts \in TaskListsUpTo(MaxFiltered),
        p \in {Undef, Some("web"), Some("WEB"), Some("")},
        a \in {Undef, Some("work")},
        g \in {Undef, Some("ur"), Some("WEB")}}

CallFilterTasks == req.cmd = "filterTasks" /\ Returned(filterTasks(req.tasks, req.options))

(***************************************************************************)
(* C16: filterTasks returns, in the order given, exactly the tasks for     *)
(* which every supplied filter is, letter case aside, a part of the task's *)
(* project, of its area, or of one of its tags; a task without the field   *)
(* does not match; with no filter the list comes back as given.            *)
(***************************************************************************)
Supplied(o) == o # Undef /\ o # <<"">>

PartOf(text, filter) ==
    \E i \in 1..(Len(text) + 1) : \E j \in (i - 1)..Len(text) :
        ToLowerCase(SubSeq(text, i, j)) = ToLowerCase(filter)

PassesFilters(task) ==
    /\ Supplied(req.options.project) =>
          (task.project # Undef /\ PartOf(task.project[1], req.options.project[1]))
    /\ Supplied(req.options.area) =>
          (task.area # Undef /\ PartOf(task.area[1], req.options.area[1]))
    /\ Supplied(req.options.tag) =>
          \E k \in DOMAIN task.tags : PartOf(task.tags[k], req.options.tag[1])

C16_FiltersCombineWithAnd ==
    (pc = "done" /\ req.cmd = "filterTasks") =>
        /\ outcome.value = SelectSeq(req.tasks, PassesFilters)
        /\ (\A o \in {req.options.project, req.options.area, req.options.tag} : ~Supplied(o))
              => outcome.value = req.tasks

C16_Witness ==
    /\ pc = "done"
    /\ req.cmd = "filterTasks"
    /\ Len(req.tasks) = 3
    /\ req.tasks[1].project = Some("Website Redesign")
    /\ req.tasks[2].project = Some("Backend")
    /\ req.tasks[3].project = Undef
    /\ req.options.project = Some("web")
    /\ req.options.area = Undef
    /\ req.options.tag = Undef
    /\ outcome.value = <<req.tasks[1]>>

PureCalls == DateCalls \cup EscapeCalls \cup ParseCalls \cup FilterCalls

PureInit ==
    /\ req \in PureCalls
    /\ pc = "idle"
    /\ outcome = NoOutcome
    /\ db = EmptyStore
    /\ db0 = EmptyStore
    /\ phase = "none"
    /\ inflight = NoScript
    /\ reply = NoReply
    /\ sent = <<>>
    /\ ops = 0
    /\ emitted = NoOutput
    /\ fs = NoFiles
    /\ fs0 = NoFiles

PureNext ==
    \/ CallIsValidDateFormat
    \/ CallEscapeAppleScript
    \/ CallParseAppleScriptTaskList
    \/ CallFilterTasks

PureSpec == PureInit /\ [][PureNext]_vars

(***************************************************************************)
(* C17: when k to-dos bear the target name and the lookup's reply reaches  *)
(* the handler, the ambiguous-name error of complete, cancel and edit has  *)
(* exactly k candidate lines, one per to-do in the store's order, each     *)
(* with the to-do's name, its status, and its project or area when it has  *)
(* one.                                                                    *)
(***************************************************************************)
ExpectedLine(n, t) ==
    "  " \o NumText(n) \o ". " \o t.name \o " (Status: " \o t.status
    \o (IF t.project # Undef THEN ", Project: " \o t.project[1] ELSE "")
    \o (IF t.area # Undef THEN ", Area: " \o t.area[1] ELSE "")
    \o ")\n"

RECURSIVE ExpectedLines(_, _)
ExpectedLines(i, n) ==
    IF i > Len(db0.tasks) THEN ""
    ELSE IF db0.tasks[i].name = req.task
    THEN ExpectedLine(n, db0.tasks[i]) \o ExpectedLines(i + 1, n + 1)
    ELSE ExpectedLines(i + 1, n)

C18_NotFoundCarriesTheName ==
    (req.cmd \in {"complete", "cancel", "edit"} /\ Targets = {}) =>
        /\ db = db0
        /\ Delivered => outcome = [kind |-> "Error", message |-> "Task not found: " \o req.task]

(***************************************************************************)
(* C19: for every command, when the operation fails the process leaves a   *)
(* non-zero exit code, and with --json the failure is printed as the       *)
(* document {success: false, error: message}, not as plain error text.     *)
(***************************************************************************)
C19_FailureExitsNonZeroAndJson ==
    (pc = "exited" /\ outcome.kind # "ok") =>
        /\ emitted.exit # 0
        /\ emitted.json =>
              /\ emitted.out.form = "json"
              /\ emitted.out.success = FALSE
              /\ emitted.out.error = outcome.message
        /\ ~emitted.json => emitted.out = [stream |-> "stderr", form |-> "text",
                                           text |-> "Error: " \o outcome.message]

(***************************************************************************)
(* C20: when edit is given the empty string for --notes, --due or --tags   *)
(* and succeeds on the one to-do of the target name, that to-do has empty  *)
(* notes, no due date, or no tags, respectively.                           *)
(***************************************************************************)
C20_EmptyStringClearsTheField ==
    (pc = "done" /\ req.cmd = "edit" /\ outcome.kind = "ok" /\ Cardinality(Targets) = 1) =>
        LET t == db.tasks[TheTask(db0, req.task)]
        IN  /\ req.notes = Some("") => t.notes = ""
            /\ req.due = Some("") => t.due = Undef
            /\ req.tags = Some("") => t.tagNames = ""

(***************************************************************************)
(* C21: after a successful add or edit with --tags t1,...,tn the to-do's   *)
(* tags are exactly t1..tn, each of them a tag of the store.               *)
(***************************************************************************)
\* The tags a to-do bears, read from its comma-separated tag names.
TagList(t) == IF t.tagNames = "" THEN <<>> ELSE TrimAll(Split(t.tagNames, ","))

\* The to-do an add has made, or the one an edit has resolved.
Subject ==
    IF req.cmd = "add" THEN db.tasks[Len(db.tasks)]
    ELSE LET id == db0.tasks[TheTask(db0, req.task)].id
         IN  db.tasks[CHOOSE i \in DOMAIN db.tasks : db.tasks[i].id = id]

Succeeded(cmd) ==
    /\ pc = "done"
    /\ req.cmd = cmd
    /\ outcome.kind = "ok"
    /\ cmd = "edit" => Cardinality(Targets) = 1

C21_TagsAreTheOnesGiven ==
    ((Succeeded("add") \/ Succeeded("edit")) /\ Truthy(req.tags)) =>
        LET given == TrimAll(Split(req.tags[1], ","))
        IN  /\ TagList(Subject) = given
            /\ \A i \in DOMAIN given : given[i] \in db.tags

(***************************************************************************)
(* C22: every to-do has at most one container, and a successful add given  *)
(* both --project and --area leaves the new to-do in the project only.     *)
(***************************************************************************)
C22_AtMostOneContainer ==
    /\ \A i \in DOMAIN db.tasks : db.tasks[i].project = Undef \/ db.tasks[i].area = Undef
    /\ (Succeeded("add") /\ Truthy(req.project) /\ Truthy(req.area)) =>
          (Subject.project = req.project /\ Subject.area = Undef)

(***************************************************************************)
(* things.ts: installSkill, which copies the packaged skill directory to   *)
(* ~/.claude/skills/things3-cli-wrapper.  Every await on the file system   *)
(* is a step; any of them may fail with an error other than ENOENT.        *)
(***************************************************************************)
MaxInstalls == 2

\* The files of the packaged skill, and those an older installation may hold.
SkillFiles == {"SKILL.md", "reference.md"}

OldFiles == {"SKILL.md", "notes.md"}

Absent == [kind |-> "absent", files |-> {}]

PlainFile == [kind |-> "file", files |-> {}]

Directory(files) == [kind |-> "dir", files |-> files]

getSkillSourcePath == "dist/../skill"

getSkillDestinationPath == "~/.claude/skills/things3-cli-wrapper"

SkillNotFoundError ==
    "Skill directory not found. This package may not include the skill files. "
    \o "Please ensure you're using a published version or the skill/ directory exists."

ClaudeDirMissingError ==
    "Claude Code configuration directory (~/.claude/) not found. "
    \o "Please ensure Claude Code is installed. Visit https://claude.com/code for installation instructions."

AlreadyInstalledError ==
    "Skill already installed at " \o getSkillDestinationPath \o ". Use --force to overwrite."

PermissionError == "EACCES: permission denied"

validateSkillDirectory(skill) ==
    IF skill.kind = "absent" THEN Throw("Error", SkillNotFoundError)
    ELSE IF skill.kind = "file"
    THEN Throw("Error", "Skill path is not a directory: " \o getSkillSourcePath)
    ELSE IF "SKILL.md" \notin skill.files THEN Throw("Error", SkillNotFoundError)
    ELSE Return("")

\* The two shapes of InstallSkillResult.
Failure(error) ==
    Return([success |-> FALSE, error |-> error, installPath |-> getSkillDestinationPath])

Installed(files) ==
    Return([success |-> TRUE, message |-> "Skill installed successfully",
            installPath |-> getSkillDestinationPath, files |-> files])

Goto(nextPhase) == [type |-> "goto", phase |-> nextPhase]

\* An existing destination is removed whether or not --force is given.
OverwriteAlways(force) == Goto("rm")

\* fs.access(destPath) succeeded: refuse without --force, else remove it.
ExistingDestination(force) ==
    IF ~force THEN Finish(Failure(AlreadyInstalledError)) ELSE Goto("rm")

InitFiles ==
    LET sources == {Absent, PlainFile} \cup {Directory(f) : f \in SUBSET SkillFiles}
        dests   == {Absent, PlainFile} \cup {Directory(f) : f \in SUBSET OldFiles}
    IN  {[source |-> s, claude |-> c, skills |-> k, dest |-> d] :
            s \in sources, c \in BOOLEAN, k \in BOOLEAN, d \in dests}

\* A path exists only inside an existing directory.
Nested(files) ==
    /\ files.skills => files.claude
    /\ files.dest # Absent => files.skills

SkillInit ==
    /\ fs \in {f \in InitFiles : Nested(f)}
    /\ fs0 = fs
    /\ pc = "idle"
    /\ phase = "none"
    /\ req = NoRequest
    /\ outcome = NoOutcome
    /\ db = EmptyStore
    /\ db0 = EmptyStore
    /\ inflight = NoScript
    /\ reply = NoReply
    /\ sent = <<>>
    /\ ops = 0
    /\ emitted = NoOutput

At(step) == pc = "running" /\ req.cmd = "install-skill" /\ phase = step

Proceed(step) ==
    /\ IF step.type = "finish"
       THEN /\ pc' = "done"
            /\ outcome' = step.outcome
            /\ UNCHANGED phase
       ELSE /\ phase' = step.phase
            /\ UNCHANGED <<pc, outcome>>
    /\ UNCHANGED <<db, db0, req, inflight, reply, sent, ops, emitted, fs0>>

InstallSkill(force) ==
    /\ pc = "idle"
    /\ ops < MaxInstalls
    /\ req' = [cmd |-> "install-skill", force |-> force]
    /\ pc' = "running"
    /\ phase' = "validate"
    /\ ops' = ops + 1
    /\ fs0' = fs
    /\ UNCHANGED <<db, db0, inflight, reply, outcome, sent, emitted, fs>>

\* await validateSkillDirectory(sourcePath); what it throws the outer catch returns.
ValidateSource ==
    /\ At("validate")
    /\ LET v == validateSkillDirectory(fs.source)
       IN  Proceed(IF v.kind = "ok" THEN Goto("claude") ELSE Finish(Failure(v.message)))
    /\ UNCHANGED fs

\* await fs.access(claudeDir)
CheckClaudeDir ==
    /\ At("claude")
    /\ Proceed(IF fs.claude THEN Goto("dest") ELSE Finish(Failure(ClaudeDirMissingError)))
    /\ UNCHANGED fs

\* await fs.access(destPath)
CheckDestination ==
    /\ At("dest")
    /\ Proceed(IF fs.dest # Absent THEN ExistingDestination(req.force) ELSE Goto("mkdir"))
    /\ UNCHANGED fs

\* await fs.rm(destPath, { recursive: true, force: true })
RemoveDestination ==
    /\ At("rm")
    /\ fs' = [fs EXCEPT !.dest = Absent]
    /\ Proceed(Goto("mkdir"))

\* await fs.mkdir(skillsDir, { recursive: true })
MakeSkillsDir ==
    /\ At("mkdir")
    /\ fs' = [fs EXCEPT !.skills = TRUE]
    /\ Proceed(Goto("copy"))

\* copyDirectory: mkdir of the destination, then one copyFile per entry of the
\* source, in the order readdir gives them.
CopyDirectory ==
    /\ At("copy")
    /\ IF fs.dest.kind # "dir"
       THEN /\ fs' = [fs EXCEPT !.dest = Directory({})]
            /\ Proceed(Goto("copy"))
       ELSE IF fs.source.files \subseteq fs.dest.files
       THEN /\ UNCHANGED fs
            /\ Proceed(Goto("list"))
       ELSE \E f \in fs.source.files \ fs.dest.files :
                /\ fs' = [fs EXCEPT !.dest = Directory(fs.dest.files \cup {f})]
                /\ Proceed(Goto("copy"))

\* getFilesRecursively(destPath), and the success result.
ListInstalledFiles ==
    /\ At("list")
    /\ Proceed(Finish(Installed(fs.dest.files)))
    /\ UNCHANGED fs

\* The pending file-system call fails (permissions, I/O): the error reaches
\* the outer catch, which returns it.
FsFault ==
    /\ pc = "running"
    /\ req.cmd = "install-skill"
    /\ Proceed(Finish(Failure(PermissionError)))
    /\ UNCHANGED fs

SkillExit ==
    /\ pc = "done"
    /\ req.cmd = "install-skill"
    /\ pc' = "idle"
    /\ phase' = "none"
    /\ req' = NoRequest
    /\ outcome' = NoOutcome
    /\ UNCHANGED <<db, db0, inflight, reply, sent, ops, emitted, fs, fs0>>

SkillNext ==
    \/ \E force \in BOOLEAN : InstallSkill(force)
    \/ ValidateSource
    \/ CheckClaudeDir
    \/ CheckDestination
    \/ RemoveDestination
    \/ MakeSkillsDir
    \/ CopyDirectory
    \/ ListInstalledFiles
    \/ FsFault
    \/ SkillExit

SkillSpec == SkillInit /\ [][SkillNext]_vars

(***************************************************************************)
(* C23: installSkill always returns a result and never throws.  Without    *)
(* force and with the destination already there, the result is a failure   *)
(* and no step touches the files.  With force, a successful install leaves *)
(* the destination holding exactly the files of the source skill.          *)
(***************************************************************************)
Installing == req.cmd = "install-skill"

WasInstalled == fs0.dest # Absent

C23_InstallSkillResult ==
    /\ (Installing /\ ~req.force /\ WasInstalled) => fs = fs0
    /\ (Installing /\ pc = "done") =>
          /\ outcome.kind = "ok"
          /\ outcome.message.success \in BOOLEAN
          /\ (~req.force /\ WasInstalled) => ~outcome.message.success
          /\ (req.force /\ WasInstalled /\ outcome.message.success) =>
                /\ fs.dest = Directory(fs0.source.files)
                /\ outcome.message.files = fs0.source.files
                /\ fs.source = fs0.source

C23_Witness ==
    /\ Installing
    /\ pc = "done"
    /\ req.force
    /\ fs0.dest = Directory(OldFiles)
    /\ outcome.message.success
    /\ fs.dest = Directory(SkillFiles)

(***************************************************************************)
(* C24: editTask dispatches its update script only when the lookup's reply *)
(* begins with FOUND:, and after any other reply it ends with an error     *)
(* without a further call.                                                 *)
(***************************************************************************)
LookupAnswered ==
    /\ req.cmd = "edit"
    /\ pc = "wait"
    /\ phase = "find"
    /\ reply # NoReply
    /\ reply.ok

C24_UpdateOnlyAfterFound ==
    [][LookupAnswered =>
         IF StartsWith(Trim(reply.text), "FOUND:")
         THEN inflight'.kind = "update"
         ELSE /\ pc' = "done"
              /\ outcome'.kind \notin {"none", "ok"}
              /\ sent' = sent]_vars

(***************************************************************************)
(* C25: when add or add-project ends with an error, the store holds no     *)
(* to-do and no project it did not hold when the command started.          *)
(***************************************************************************)
EndedWithError(cmds) ==
    /\ pc = "done"
    /\ req.cmd \in cmds
    /\ outcome.kind # "ok"

C25_FailedAddCreatesNothing ==
    EndedWithError({"add", "addProject"}) =>
        /\ db.tasks = db0.tasks
        /\ db.projects = db0.projects

(***************************************************************************)
(* C26: when edit ends with an error, every to-do the store held when the  *)
(* command started is as it was.                                           *)
(***************************************************************************)
C26_FailedEditChangesNothing ==
    EndedWithError({"edit"}) =>
        \A j \in DOMAIN db0.tasks : \E i \in DOMAIN db.tasks : db.tasks[i] = db0.tasks[j]

(***************************************************************************)
(* C27: every update script editTask dispatches holds at least one clause, *)
(* and every successful edit reports at least one change.                  *)
(***************************************************************************)
HasClause(s) ==
    \/ s.name # Undef
    \/ s.notes # Undef
    \/ s.due # Undef
    \/ s.tags # Undef
    \/ s.project # Undef
    \/ s.area # Undef

C27_UpdateChangesSomething ==
    /\ (req.cmd = "edit" /\ inflight.kind = "update") => HasClause(inflight)
    /\ (pc = "done" /\ req.cmd = "edit" /\ outcome.kind = "ok") =>
          /\ Changes(req) # <<>>
          /\ outcome.message # "Task \"" \o req.task \o "\" updated: "

(***************************************************************************)
(* C28: a successful list without project, area or tag filter returns one  *)
(* Task per to-do of the selected view, in order, each with the to-do's    *)
(* id, name, notes, project, area and tags.                                *)
(***************************************************************************)
\* The fields of a to-do the listing is to carry over.
Listed(t) ==
    [id |-> t.id, name |-> t.name, notes |-> t.notes,
     project |-> t.project, area |-> t.area, tags |-> TagList(t)]

\* The same fields of a returned Task; an absent text field reads as empty.
ReturnedFields(task) ==
    [id |-> IF task.id = Undef THEN "" ELSE task.id[1],
     name |-> IF task.name = Undef THEN "" ELSE task.name[1],
     notes |-> IF task.notes = Undef THEN "" ELSE task.notes[1],
     project |-> task.project, area |-> task.area, tags |-> task.tags]

InView == SelectSeq(db.tasks, LAMBDA t : InSource(t, SourceOf(req.list)))

C28_ListReturnsEveryTask ==
    (/\ pc = "done"
     /\ req.cmd = "list"
     /\ outcome.kind = "ok"
     /\ ~Truthy(req.project) /\ ~Truthy(req.area) /\ ~Truthy(req.tag)) =>
        /\ Len(outcome.tasks) = Len(InView)
        /\ \A i \in DOMAIN InView : ReturnedFields(outcome.tasks[i]) = Listed(InView[i])

(***************************************************************************)
(* C29: complete and cancel change nothing but the status of the one to-do *)
(* that bears the target name, a successful one has changed it, and list   *)
(* changes nothing.                                                        *)
(***************************************************************************)
\* The store differs from the one the command found in one status only.
OnlyStatusOfTarget(status) ==
    \E i \in Targets :
        /\ Targets = {i}
        /\ db0.tasks[i].status # status
        /\ db = [db0 EXCEPT !.tasks[i].status = status]

StatusSetBy(cmd) == IF cmd = "complete" THEN "completed" ELSE "canceled"

ResolvedId == db0.tasks[TheTask(db0, req.task)].id

Before(id) == {i \in DOMAIN db0.tasks : db0.tasks[i].id = id}

C30_EditTouchesOnlyTheResolvedTask ==
    (req.cmd = "edit" /\ Cardinality(Targets) = 1) =>
        \A i \in DOMAIN db.tasks :
            LET t == db.tasks[i]
            IN  t.id # ResolvedId =>
                    IF Before(t.id) = {} THEN t = NewTask(t.id, req.task)
                    ELSE \A j \in Before(t.id) : t = db0.tasks[j]

C30_Witness ==
    /\ pc = "done"
    /\ req.cmd = "edit"
    /\ outcome.kind = "ok"
    /\ Cardinality(Targets) = 1
    /\ Len(db.tasks) = Len(db0.tasks) + 1
    /\ db.tasks[1] = NewTask(db.tasks[1].id, req.task)
    /\ \E i \in DOMAIN db.tasks :
           /\ db.tasks[i].id = ResolvedId
           /\ db.tasks[i].notes # db0.tasks[TheTask(db0, req.task)].notes

====
